---------------------------- MODULE Spec2Model ----------------------------
(***************************************************************************)
(* A model of the learning-science audit tool: the section classifier,     *)
(* the applicability filter, the analyze endpoint with its prompt builder, *)
(* and the AuditTool component (section analysis, aggregation of section   *)
(* results, manual rating, follow-up refinement, reset).                   *)
(*                                                                         *)
(* Strings the code inspects character by character (section names and the *)
(* patterns they are matched against) are sequences of one-character       *)
(* strings.  Strings the code only copies or compares are TLA+ strings.    *)
(***************************************************************************)
EXTENDS Integers, Sequences, FiniteSets, TLC

VARIABLES
    \* --- section classifier (upfrontQuestions.ts, detectSectionType) ---
    sectionName,      \* the argument of detectSectionType
    detected,         \* its return value, NotYet before the call
    \* --- applicability filter (upfrontQuestions.ts, getApplicablePrincipleIds) ---
    sectionType,        \* argument: the section type
    allPrincipleIds,    \* argument: the ids to filter, a sequence
    principleAppliesTo, \* argument: id -> appliesTo array; an id outside its
                        \* domain has an undefined appliesTo
    applicableIds,      \* None before the call, Some(return value) after it
    \* --- analyze endpoint (pages/api/analyze.ts, POST) ---
    apiKey,           \* whether ANTHROPIC_API_KEY is configured
    request,          \* the body of the request the handler is given
    oracleOutcome,    \* None, or Some(outcome of the oracle call): what
                      \* client.messages.create did, or would have done
    handled,          \* None before the handler ran, then Some(what it did)
    \* --- AuditTool component (components/react/AuditTool.tsx) ---
    mode,             \* "manual" or "ai"
    ratings,          \* principle id -> rating, NULL for null
    sections,         \* the sections added, each with its name and images
    sectionResults,   \* the results of the last analysis, a sequence
    isAnalyzing,
    analyzingSection, \* None (null) or Some(name)
    error,            \* NoError (null) or the message
    showFollowUp,
    isRefining,
    refinedScores,    \* what the last refinement stored
    currentIndex,     \* the question the follow-up questions show, 0 while
                      \* they are not mounted
    analysis,         \* where the call of analyzeSections is, and its locals
    refinement,       \* where the call of handleFollowUpComplete is, and
                      \* what it captured
    \* --- missing-flow advisor (data/missingFlowsData.ts) ---
    presentTypes,     \* the argument of getMissingFlowRecommendations
    recommendations,  \* None before the call, Some(return value) after it
    \* --- legacy share link (AuditTool.tsx, shareLegacyUrl and the mount) ---
    link,             \* None, or Some(value of the parameter r of the link)
    opened,           \* None, or Some(ratings of the component mounted
                      \* with the link)
    \* --- reports endpoint (pages/api/reports.ts, POST and GET) ---
    supabase,         \* whether the database client is configured
    audit_reports,    \* the table: the row stored under each id
    exchange,         \* None, or Some(the last request and its response)
    \* --- upfront context (UpfrontContextModal.tsx, analyze.ts) ---
    modalAnswers,     \* answers of the modal: the entries [id, answer] of
                      \* the relevant questions, in their order
    filteredAnswers,  \* None, or Some(what handleSubmit gave onComplete)
    contextSection,   \* None, or Some(what buildUpfrontContextSection
                      \* returned for the filtered answers)
    \* --- follow-up questions (FollowUpQuestions.tsx); its currentIndex is
    \* --- the variable of that name above
    lowScoringPrinciples, \* the prop: the principles to ask about
    answers,          \* the answers state, one per principle
    onComplete,       \* None, or Some(the answers onComplete was given)
    leftVia,          \* per principle, the button the user last left its
                      \* question by: "" (not left yet), "next",
                      \* "previous" or "skip"
    \* --- key takeaways (AuditTool, results and keyTakeaways) ---
    catalogue,        \* the principles prop: [id, category] records
    takeawayRatings,  \* the ratings state over that catalogue
    keyTakeaways      \* NotYet, or None (null), or Some(the takeaways)

classifierVars == <<sectionName, detected>>

advisorVars == <<presentTypes, recommendations>>

linkVars == <<link, opened>>

storeVars == <<supabase, audit_reports, exchange>>

upfrontVars == <<modalAnswers, filteredAnswers, contextSection>>

followUpVars == <<lowScoringPrinciples, answers, onComplete, leftVia>>

takeawayVars == <<catalogue, takeawayRatings, keyTakeaways>>

filterVars == <<sectionType, allPrincipleIds, principleAppliesTo, applicableIds>>

endpointVars == <<apiKey, request, oracleOutcome, handled>>

clientVars ==
    <<mode, ratings, sections, sectionResults, isAnalyzing, analyzingSection,
      error, showFollowUp, isRefining, refinedScores, currentIndex, analysis,
      refinement>>

vars == <<sectionName, detected,
          sectionType, allPrincipleIds, principleAppliesTo, applicableIds,
          apiKey, request, oracleOutcome, handled,
          mode, ratings, sections, sectionResults, isAnalyzing,
          analyzingSection, error, showFollowUp, isRefining, refinedScores,
          currentIndex, analysis, refinement,
          presentTypes, recommendations,
          link, opened,
          supabase, audit_reports, exchange,
          modalAnswers, filteredAnswers, contextSection,
          lowScoringPrinciples, answers, onComplete, leftVia,
          catalogue, takeawayRatings, keyTakeaways>>

(***************************************************************************)
(* Values                                                                  *)
(***************************************************************************)

\* "no value yet" for the result of detectSectionType before the call
NotYet == "not-yet"

\* an optional value: None, or Some(v)
None == <<>>

Some(v) == <<v>>

\* the value of Some(v)
The(opt) == opt[1]

\* the elements of a sequence
Range(s) == { s[i] : i \in DOMAIN s }

\* A JavaScript number, kept as the count of its halves so that the scores
\* between two whole numbers, which JSON can carry, can be written: N(3) is
\* 3 and N(3) + 1 is 3.5.  Comparisons and sums are those of the numbers.
N(k) == 2 * k

SectionTypes ==
    {"quiz", "pre-quiz", "post-quiz", "lesson", "practice", "review",
     "onboarding", "overall"}

(***************************************************************************)
(* Character strings                                                       *)
(***************************************************************************)

Upper == <<"A", "B", "C", "D", "E", "F", "G", "H", "I", "J", "K", "L", "M",
           "N", "O", "P", "Q", "R", "S", "T", "U", "V", "W", "X", "Y", "Z">>

Lower == <<"a", "b", "c", "d", "e", "f", "g", "h", "i", "j", "k", "l", "m",
           "n", "o", "p", "q", "r", "s", "t", "u", "v", "w", "x", "y", "z">>

\* String.prototype.toLowerCase on one character
lowerChar(c) ==
    IF \E i \in 1..26 : Upper[i] = c
    THEN Lower[CHOOSE i \in 1..26 : Upper[i] = c]
    ELSE c

\* String.prototype.toLowerCase
toLowerCase(s) == [i \in 1..Len(s) |-> lowerChar(s[i])]

\* whether p occurs in s as a substring
Contains(s, p) ==
    \E i \in 0..(Len(s) - Len(p)) : SubSeq(s, i + 1, i + Len(p)) = p

\* String.prototype.trim, for blanks
trim(name) ==
    LET inner == { k \in DOMAIN name : name[k] # " " } IN
    IF inner = {} THEN <<>>
    ELSE SubSeq(name, CHOOSE k \in inner : \A j \in inner : k <= j,
                      CHOOSE k \in inner : \A j \in inner : j <= k)

\* RegExp.prototype.test for a pattern that is an alternation of literal
\* strings: some alternative occurs in the name
test(alternatives, name) == \E p \in alternatives : Contains(name, p)

(***************************************************************************)
(* The patterns of detectSectionType                                       *)
(***************************************************************************)

\* [- ]? : an optional hyphen or blank
OptSep == { <<>>, <<"-">>, <<" ">> }

\* (lesson|quiz|test|assessment)
PrePostTail ==
    { <<"l", "e", "s", "s", "o", "n">>,
      <<"q", "u", "i", "z">>,
      <<"t", "e", "s", "t">>,
      <<"a", "s", "s", "e", "s", "s", "m", "e", "n", "t">> }

\* /pre[- ]?(lesson|quiz|test|assessment)|diagnostic|baseline|placement/
preQuizPattern ==
    { <<"p", "r", "e">> \o s \o w : s \in OptSep, w \in PrePostTail }
    \cup
    { <<"d", "i", "a", "g", "n", "o", "s", "t", "i", "c">>,
      <<"b", "a", "s", "e", "l", "i", "n", "e">>,
      <<"p", "l", "a", "c", "e", "m", "e", "n", "t">> }

\* /post[- ]?(lesson|quiz|test|assessment)|final|summative/
postQuizPattern ==
    { <<"p", "o", "s", "t">> \o s \o w : s \in OptSep, w \in PrePostTail }
    \cup
    { <<"f", "i", "n", "a", "l">>,
      <<"s", "u", "m", "m", "a", "t", "i", "v", "e">> }

\* /quiz|test|assessment|exam|check|question/
quizPattern ==
    { <<"q", "u", "i", "z">>,
      <<"t", "e", "s", "t">>,
      <<"a", "s", "s", "e", "s", "s", "m", "e", "n", "t">>,
      <<"e", "x", "a", "m">>,
      <<"c", "h", "e", "c", "k">>,
      <<"q", "u", "e", "s", "t", "i", "o", "n">> }

\* /practice|exercise|activity|game|drill|challenge/
practicePattern ==
    { <<"p", "r", "a", "c", "t", "i", "c", "e">>,
      <<"e", "x", "e", "r", "c", "i", "s", "e">>,
      <<"a", "c", "t", "i", "v", "i", "t", "y">>,
      <<"g", "a", "m", "e">>,
      <<"d", "r", "i", "l", "l">>,
      <<"c", "h", "a", "l", "l", "e", "n", "g", "e">> }

\* /review|summary|recap|revisit|refresh/
reviewPattern ==
    { <<"r", "e", "v", "i", "e", "w">>,
      <<"s", "u", "m", "m", "a", "r", "y">>,
      <<"r", "e", "c", "a", "p">>,
      <<"r", "e", "v", "i", "s", "i", "t">>,
      <<"r", "e", "f", "r", "e", "s", "h">> }

\* /onboard|welcome|intro|getting started|tutorial/
onboardingPattern ==
    { <<"o", "n", "b", "o", "a", "r", "d">>,
      <<"w", "e", "l", "c", "o", "m", "e">>,
      <<"i", "n", "t", "r", "o">>,
      <<"g", "e", "t", "t", "i", "n", "g", " ", "s", "t", "a", "r", "t", "e", "d">>,
      <<"t", "u", "t", "o", "r", "i", "a", "l">> }

\* /lesson|instruction|content|learn|module|video|lecture|read/
lessonPattern ==
    { <<"l", "e", "s", "s", "o", "n">>,
      <<"i", "n", "s", "t", "r", "u", "c", "t", "i", "o", "n">>,
      <<"c", "o", "n", "t", "e", "n", "t">>,
      <<"l", "e", "a", "r", "n">>,
      <<"m", "o", "d", "u", "l", "e">>,
      <<"v", "i", "d", "e", "o">>,
      <<"l", "e", "c", "t", "u", "r", "e">>,
      <<"r", "e", "a", "d">> }

(***************************************************************************)
(* detectSectionType                                                       *)
(***************************************************************************)

\* a slip in the order of the checks: the generic quiz group is tried
\* before the post-quiz group
detectSectionType_QuizBeforePost(name0) ==
    LET name == toLowerCase(name0) IN
    IF test(preQuizPattern, name) THEN "pre-quiz"
    ELSE IF test(quizPattern, name) THEN "quiz"
    ELSE IF test(postQuizPattern, name) THEN "post-quiz"
    ELSE IF test(practicePattern, name) THEN "practice"
    ELSE IF test(reviewPattern, name) THEN "review"
    ELSE IF test(onboardingPattern, name) THEN "onboarding"
    ELSE "lesson"

detectSectionType(name0) ==
    LET name == toLowerCase(name0) IN
    IF test(preQuizPattern, name) THEN "pre-quiz"
    ELSE IF test(postQuizPattern, name) THEN "post-quiz"
    ELSE IF test(quizPattern, name) THEN "quiz"
    ELSE IF test(practicePattern, name) THEN "practice"
    ELSE IF test(reviewPattern, name) THEN "review"
    ELSE IF test(onboardingPattern, name) THEN "onboarding"
    ELSE IF test(lessonPattern, name) THEN "lesson"
    ELSE "lesson"

(***************************************************************************)
(* The principle catalogue (auditPrompts.ts, auditData)                    *)
(***************************************************************************)

\* Object.keys(auditData): the principle ids in the order they are written
auditDataIds ==
    <<"spaced-repetition", "retrieval-practice", "elaboration",
      "interleaving", "desirable-difficulties", "deliberate-practice",
      "cognitive-load-theory", "chunking", "growth-mindset", "self-efficacy",
      "metacognition", "self-explanation", "transfer-of-learning">>

\* auditData[id].appliesTo
auditDataAppliesTo ==
    [id \in Range(auditDataIds) |->
        CASE id = "spaced-repetition" -> <<"review", "overall">>
          [] id = "retrieval-practice" ->
                <<"post-quiz", "quiz", "practice", "review", "overall">>
          [] id = "elaboration" ->
                <<"post-quiz", "quiz", "lesson", "practice", "overall">>
          [] id = "interleaving" ->
                <<"post-quiz", "quiz", "practice", "review", "overall">>
          [] id = "desirable-difficulties" ->
                <<"post-quiz", "quiz", "practice", "overall">>
          [] id = "deliberate-practice" -> <<"practice", "overall">>
          [] id = "cognitive-load-theory" ->
                <<"pre-quiz", "post-quiz", "quiz", "lesson", "practice",
                  "review", "onboarding", "overall">>
          [] id = "chunking" -> <<"lesson", "onboarding", "overall">>
          [] id = "growth-mindset" ->
                <<"pre-quiz", "post-quiz", "quiz", "lesson", "practice",
                  "onboarding", "overall">>
          [] id = "self-efficacy" ->
                <<"pre-quiz", "post-quiz", "quiz", "lesson", "practice",
                  "onboarding", "overall">>
          [] id = "metacognition" ->
                <<"pre-quiz", "post-quiz", "quiz", "lesson", "practice",
                  "review", "overall">>
          [] id = "self-explanation" ->
                <<"post-quiz", "quiz", "lesson", "practice", "overall">>
          [] id = "transfer-of-learning" ->
                <<"lesson", "practice", "overall">>]

(***************************************************************************)
(* getApplicablePrincipleIds                                               *)
(***************************************************************************)

\* Array.prototype.includes
includes(array, x) == \E i \in DOMAIN array : array[i] = x

\* a slip: an empty appliesTo is no longer a wildcard, only an undefined one
getApplicablePrincipleIds_EmptyAppliesToNothing(type, ids, appliesToOf) ==
    SelectSeq(ids, LAMBDA id :
        IF id \notin DOMAIN appliesToOf THEN TRUE
        ELSE includes(appliesToOf[id], type))

\* allPrincipleIds.filter(...): the ids, in order, whose appliesTo is
\* undefined (!appliesTo), empty, or includes the section type
getApplicablePrincipleIds(type, ids, appliesToOf) ==
    SelectSeq(ids, LAMBDA id :
        IF id \notin DOMAIN appliesToOf \/ Len(appliesToOf[id]) = 0 THEN TRUE
        ELSE includes(appliesToOf[id], type))

(***************************************************************************)
(* Section names the tool offers (SECTION_PRESETS)                         *)
(***************************************************************************)

PreLessonQuiz ==
    <<"P", "r", "e", "-", "L", "e", "s", "s", "o", "n", " ", "Q", "u", "i", "z">>

LessonInstruction ==
    <<"L", "e", "s", "s", "o", "n", " ", "/", " ",
      "I", "n", "s", "t", "r", "u", "c", "t", "i", "o", "n">>

PostLessonQuiz ==
    <<"P", "o", "s", "t", "-", "L", "e", "s", "s", "o", "n", " ", "Q", "u", "i", "z">>

PracticeActivity ==
    <<"P", "r", "a", "c", "t", "i", "c", "e", " ",
      "A", "c", "t", "i", "v", "i", "t", "y">>

ReviewSummary ==
    <<"R", "e", "v", "i", "e", "w", " ", "/", " ", "S", "u", "m", "m", "a", "r", "y">>

Onboarding == <<"O", "n", "b", "o", "a", "r", "d", "i", "n", "g">>

Assessment == <<"A", "s", "s", "e", "s", "s", "m", "e", "n", "t">>

SECTION_PRESETS ==
    <<PreLessonQuiz, LessonInstruction, PostLessonQuiz, PracticeActivity,
      ReviewSummary, Onboarding, Assessment>>

(***************************************************************************)
(* The analyze endpoint (pages/api/analyze.ts)                             *)
(***************************************************************************)

\* config/constants: the most images one analyze request may carry
MAX_IMAGES_PER_SECTION == 10

\* an absent (undefined) string field of a request
Undefined == "undefined"

\* One line of a prompt.  kind says which line of buildPrompt wrote it; arg
\* is the principle id or the section type the line names ("" when it names
\* none) and n the rubric level or the principle count it prints (0 when
\* it prints none).  The fixed wording of the lines is not modelled.
Line(kind, arg, n) == [kind |-> kind, arg |-> arg, n |-> n]

\* the rubric lines 1..5 of a principle (analyze.ts, the inner for loop)
RubricLines(id) == [i \in 1..5 |-> Line("rubric", id, i)]

\* the block buildPrompt appends for one principle: "## id", the question,
\* "Rubric:", the five rubric lines and an empty line
PrincipleBlock(id) ==
    <<Line("heading", id, 0), Line("question", id, 0),
      Line("rubric-header", "", 0)>>
    \o RubricLines(id) \o <<Line("blank", "", 0)>>

RECURSIVE RubricListing(_)
\* the for loop over applicablePrinciples
RubricListing(ids) ==
    IF ids = <<>> THEN <<>>
    ELSE PrincipleBlock(Head(ids)) \o RubricListing(Tail(ids))

\* whether a sectionName is truthy: given and not the empty string
NameGiven(name) == name # None /\ The(name) # <<>>

\* a slip: the rubric listing is not filtered, it lists the whole catalogue
buildPrompt_WholeCatalogue(name, resolvedSectionType, sectionNotes) ==
    LET type == IF resolvedSectionType # Undefined
                THEN resolvedSectionType ELSE "overall"
    IN  (IF NameGiven(name)
         THEN <<Line("section-intro", type, 0)>>
              \o (IF sectionNotes THEN <<Line("section-notes", "", 0)>>
                  ELSE <<>>)
              \o <<Line("section-instructions", type, Len(auditDataIds))>>
         ELSE <<Line("overall-intro", "", 0)>>)
        \o <<Line("listing-header", "", Len(auditDataIds))>>
        \o RubricListing(auditDataIds)
        \o <<Line("format", "", 0)>>

\* buildPrompt(sectionName, resolvedSectionType, sectionNotes): the prompt,
\* a sequence of lines.  sectionNotes is whether notes were given.
buildPrompt(name, resolvedSectionType, sectionNotes) ==
    LET type == IF resolvedSectionType # Undefined
                THEN resolvedSectionType ELSE "overall"
        applicablePrincipleIds ==
            getApplicablePrincipleIds(type, auditDataIds, auditDataAppliesTo)
    IN  (IF NameGiven(name)
         THEN <<Line("section-intro", type, 0)>>
              \o (IF sectionNotes THEN <<Line("section-notes", "", 0)>>
                  ELSE <<>>)
              \o <<Line("section-instructions", type,
                        Len(applicablePrincipleIds))>>
         ELSE <<Line("overall-intro", "", 0)>>)
        \o <<Line("listing-header", "", Len(applicablePrincipleIds))>>
        \o RubricListing(applicablePrincipleIds)
        \o <<Line("format", "", 0)>>

\* One ScoreResult of a scores map.  Its reasoning and confidence, which
\* the code only displays, are not modelled.
Entry(score, notApplicable) ==
    [score |-> score, notApplicable |-> notApplicable]

\* the entry the endpoint writes for a principle that does not apply
NotApplicableEntry == Entry(0, TRUE)

\* A parsed reply: whether it has a "scores" key, and the scores map, a
\* function from the ids it answers to their entries.
Object(hasScores, scores) == [hasScores |-> hasScores, scores |-> scores]

EmptyObject == Object(FALSE, <<>>)

\* One piece of the reply text: prose without braces, an opening brace, a
\* closing brace, or the text of a JSON object (which starts with an
\* opening and ends with a closing brace).
Prose == [t |-> "prose", value |-> EmptyObject]

LBrace == [t |-> "{", value |-> EmptyObject]

RBrace == [t |-> "}", value |-> EmptyObject]

JsonText(object) == [t |-> "object", value |-> object]

\* text.match(/\{[\s\S]*\}/): the pieces from the first opening brace to
\* the last closing brace, None when no closing brace follows an opening one
jsonMatch(text) ==
    LET opens == { i \in DOMAIN text : text[i].t \in {"{", "object"} }
        closes == { i \in DOMAIN text : text[i].t \in {"}", "object"} }
    IN  IF opens = {} \/ closes = {} THEN None
        ELSE LET first == CHOOSE i \in opens : \A j \in opens : i <= j
                 last == CHOOSE i \in closes : \A j \in closes : j <= i
             IN  IF last < first THEN None
                 ELSE Some(SubSeq(text, first, last))

\* JSON.parse of a match: the object when the match is the text of one
\* object, the empty object for "{}", None when JSON.parse throws
parseJson(match) ==
    IF Len(match) = 1 /\ match[1].t = "object" THEN Some(match[1].value)
    ELSE IF match = <<LBrace, RBrace>> THEN Some(EmptyObject)
    ELSE None

\* A response: the status, the error message ("" when there is none) and
\* the body's object (EmptyObject for an error response).
Response(status, message, result) ==
    [status |-> status, error |-> message, result |-> result]

\* What one run of the handler did: its response, the type it resolved,
\* and the prompt and the number of images it sent to the oracle (None
\* when it made no call).
Handled(response, resolved, prompt, imageContent) ==
    [response |-> response, resolvedSectionType |-> resolved,
     prompt |-> prompt, imageContent |-> imageContent]

\* sectionType || (sectionName ? detectSectionType(sectionName) : 'overall')
resolveSectionType(req) ==
    IF req.sectionType # Undefined THEN req.sectionType
    ELSE IF NameGiven(req.sectionName)
         THEN detectSectionType(The(req.sectionName))
         ELSE "overall"

\* the loop "Mark non-applicable principles": the scores map with the entry
\* of every principle that does not apply overwritten
markNotApplicable(scores, resolved) ==
    LET applicablePrincipleIds ==
            getApplicablePrincipleIds(resolved, auditDataIds,
                                      auditDataAppliesTo)
        notApplicable == Range(auditDataIds) \ Range(applicablePrincipleIds)
    IN  [id \in DOMAIN scores \cup notApplicable |->
            IF id \in notApplicable THEN NotApplicableEntry ELSE scores[id]]

\* the part of POST after the oracle call returned: find the text block,
\* match and parse the JSON, mark the principles that do not apply
answerFrom(outcome, resolved) ==
    IF ~outcome.hasText
    THEN Response(500, "No text response from API", EmptyObject)
    ELSE LET match == jsonMatch(outcome.text) IN
         IF match = None
         THEN Response(500, "Could not parse JSON from response", EmptyObject)
         ELSE LET parsed == parseJson(The(match)) IN
              IF parsed = None
              THEN Response(500, "SyntaxError", EmptyObject)
              ELSE LET result == The(parsed)
                       applicablePrincipleIds ==
                           getApplicablePrincipleIds(
                               resolved, auditDataIds, auditDataAppliesTo)
                   IN  IF /\ ~result.hasScores
                          /\ Range(applicablePrincipleIds)
                               # Range(auditDataIds)
                       THEN \* result.scores[principleId] = ... throws
                            Response(500, "TypeError", EmptyObject)
                       ELSE IF ~result.hasScores
                       THEN Response(200, "", result)
                       ELSE Response(200, "",
                                Object(TRUE, markNotApplicable(
                                                 result.scores, resolved)))

\* a slip: the images over the limit are dropped and the rest is analysed
POST_Truncates(keySet, req, outcome) ==
    IF ~keySet
    THEN Handled(Response(500, "API key not configured", EmptyObject),
                 Undefined, None, None)
    ELSE IF ~req.images.isArray \/ req.images.length = 0
    THEN Handled(Response(400, "No images provided", EmptyObject),
                 Undefined, None, None)
    ELSE LET resolved == resolveSectionType(req)
             prompt == buildPrompt(req.sectionName, resolved,
                                   req.sectionNotes)
             imageContent ==
                 IF req.images.length > MAX_IMAGES_PER_SECTION
                 THEN MAX_IMAGES_PER_SECTION ELSE req.images.length
         IN  IF outcome.throws
             THEN Handled(Response(500, "oracle error", EmptyObject),
                          resolved, Some(prompt), Some(imageContent))
             ELSE Handled(answerFrom(outcome, resolved), resolved,
                          Some(prompt), Some(imageContent))

\* POST: the handler, for a request, with the API key configured or not
\* (keySet),
\* and the outcome of the oracle call should the handler make it.
\* req.images is [isArray, length]: length is 0 for absent images.
POST(keySet, req, outcome) ==
    IF ~keySet
    THEN Handled(Response(500, "API key not configured", EmptyObject),
                 Undefined, None, None)
    ELSE IF ~req.images.isArray \/ req.images.length = 0
    THEN Handled(Response(400, "No images provided", EmptyObject),
                 Undefined, None, None)
    ELSE IF req.images.length > MAX_IMAGES_PER_SECTION
    THEN Handled(Response(400, "Maximum images exceeded", EmptyObject),
                 Undefined, None, None)
    ELSE LET resolved == resolveSectionType(req)
             prompt == buildPrompt(req.sectionName, resolved,
                                   req.sectionNotes)
             imageContent == req.images.length
         IN  IF outcome.throws
             THEN Handled(Response(500, "oracle error", EmptyObject),
                          resolved, Some(prompt), Some(imageContent))
             ELSE Handled(answerFrom(outcome, resolved), resolved,
                          Some(prompt), Some(imageContent))

(***************************************************************************)
(* The AuditTool component (components/react/AuditTool.tsx): derived       *)
(* values                                                                  *)
(***************************************************************************)

\* how many principles the component is given
NumPrinciples == 2

\* the principles prop: the ids of the principles shown, in catalogue order
principles == SubSeq(auditDataIds, 1, NumPrinciples)

\* the rating null: the principle is not rated
NULL == -1

\* the state error when there is none (null).  An error message is a
\* sequence of pieces of text: a message of a server is one piece, a
\* section name its characters.
NoError == <<>>

\* errorData.error || fallback, the message of the Error thrown for a
\* response that is not ok
errorOr(message, fallback) ==
    IF message # "" THEN <<message>> ELSE fallback

\* `Analysis failed for ${section.name}`
analysisFailedFor(name) == <<"Analysis failed for ">> \o name

\* one SectionResult: the section's name and the scores map of the answer.
\* The section id, which only selects the results tab, is not modelled.
SectionResult(name, scores) == [sectionName |-> name, scores |-> scores]

\* a slip: the test score.score > 0 is left out
Qualifies_ZeroCounts(result, id) ==
    /\ id \in DOMAIN result.scores
    /\ ~result.scores[id].notApplicable

\* score && !score.notApplicable && score.score > 0, for the entry of a
\* principle in one section result
Qualifies(result, id) ==
    /\ id \in DOMAIN result.scores
    /\ ~result.scores[id].notApplicable
    /\ result.scores[id].score > 0

\* a best score with the name of the section it comes from
Best(entry, name) ==
    [score |-> entry.score, notApplicable |-> entry.notApplicable,
     contributingSection |-> name]

RECURSIVE bestScoreFrom(_, _, _, _)
\* a slip in the inner loop of combinedAiScores: >= for >, so that the last
\* of several equal scores wins
bestScoreFrom_LastWins(results, id, i, bestScore) ==
    IF i > Len(results) THEN bestScore
    ELSE IF /\ Qualifies(results[i], id)
            /\ \/ bestScore = None
               \/ results[i].scores[id].score >= The(bestScore).score
         THEN bestScoreFrom(results, id, i + 1,
                  Some(Best(results[i].scores[id], results[i].sectionName)))
         ELSE bestScoreFrom(results, id, i + 1, bestScore)

\* the inner loop of combinedAiScores from the i-th section result on:
\* bestScore is None (null) or Some(best score so far)
bestScoreFrom(results, id, i, bestScore) ==
    IF i > Len(results) THEN bestScore
    ELSE IF /\ Qualifies(results[i], id)
            /\ \/ bestScore = None
               \/ results[i].scores[id].score > The(bestScore).score
         THEN bestScoreFrom(results, id, i + 1,
                  Some(Best(results[i].scores[id], results[i].sectionName)))
         ELSE bestScoreFrom(results, id, i + 1, bestScore)

\* combinedAiScores: None (null) when there are no section results, else
\* Some(map from the principles with a best score to that score)
combinedAiScoresOf(results) ==
    IF Len(results) = 0 THEN None
    ELSE LET withBest == { id \in Range(principles) :
                             bestScoreFrom(results, id, 1, None) # None }
         IN  Some([id \in withBest |->
                      The(bestScoreFrom(results, id, 1, None))])

RECURSIVE prefillFrom(_, _, _, _)
\* a slip in the inner loop of the pre-fill: the test of notApplicable is
\* left out
prefillFrom_CountsNotApplicable(results, id, i, bestScore) ==
    IF i > Len(results) THEN bestScore
    ELSE IF /\ id \in DOMAIN results[i].scores
            /\ results[i].scores[id].score > bestScore
         THEN prefillFrom(results, id, i + 1, results[i].scores[id].score)
         ELSE prefillFrom(results, id, i + 1, bestScore)

\* the inner loop of "Pre-fill ratings with best scores": bestScore is a
\* number, 0 at the start
prefillFrom(results, id, i, bestScore) ==
    IF i > Len(results) THEN bestScore
    ELSE IF /\ id \in DOMAIN results[i].scores
            /\ ~results[i].scores[id].notApplicable
            /\ results[i].scores[id].score > bestScore
         THEN prefillFrom(results, id, i + 1, results[i].scores[id].score)
         ELSE prefillFrom(results, id, i + 1, bestScore)

\* a slip: a principle without a best score is rated 0 instead of null
newRatingsOf_ZeroForNone(results) ==
    [id \in Range(principles) |-> prefillFrom(results, id, 1, 0)]

\* newRatings of analyzeSections
newRatingsOf(results) ==
    [id \in Range(principles) |->
        LET bestScore == prefillFrom(results, id, 1, 0) IN
        IF bestScore > 0 THEN bestScore ELSE NULL]

RECURSIVE insertAscending(_, _)
\* x put into the ascending sequence s, after the elements that compare
\* equal to it
insertAscending(s, x) ==
    IF s = <<>> THEN <<x>>
    ELSE IF x.score < Head(s).score THEN <<x>> \o s
    ELSE <<Head(s)>> \o insertAscending(Tail(s), x)

RECURSIVE sortAscending(_)
\* sort((a, b) => a.score - b.score): Array.prototype.sort is stable
sortAscending(s) ==
    IF s = <<>> THEN <<>>
    ELSE insertAscending(sortAscending(SubSeq(s, 1, Len(s) - 1)), s[Len(s)])

RECURSIVE insertDescending(_, _)
\* x put into the descending sequence s, after the elements that compare
\* equal to it
insertDescending(s, x) ==
    IF s = <<>> THEN <<x>>
    ELSE IF x.score > Head(s).score THEN <<x>> \o s
    ELSE <<Head(s)>> \o insertDescending(Tail(s), x)

RECURSIVE sortDescending(_)
\* sort((a, b) => b.score - a.score)
sortDescending(s) ==
    IF s = <<>> THEN <<>>
    ELSE insertDescending(sortDescending(SubSeq(s, 1, Len(s) - 1)), s[Len(s)])

\* Object.entries of a map keyed by principle ids, as [id, score] records;
\* the keys are in the order of the principles
entriesOf(map) ==
    LET keys == SelectSeq(principles, LAMBDA id : id \in DOMAIN map)
    IN  [i \in DOMAIN keys |-> [id |-> keys[i], score |-> map[keys[i]]]]

\* a slip: the sort of lowScoringPrinciples is left out
lowScoringPrinciplesOf_Unsorted(results) ==
    LET combined == combinedAiScoresOf(results) IN
    IF combined = None THEN <<>>
    ELSE LET entries == entriesOf(The(combined))
             low == SelectSeq(entries, LAMBDA e :
                        e.score.score <= N(3) /\ ~e.score.notApplicable)
         IN  [i \in DOMAIN low |->
                 [id |-> low[i].id, score |-> low[i].score.score]]

\* lowScoringPrinciples: the entries of combinedAiScores with a score of
\* at most 3 that are not marked notApplicable, ascending by score
lowScoringPrinciplesOf(results) ==
    LET combined == combinedAiScoresOf(results) IN
    IF combined = None THEN <<>>
    ELSE LET entries == entriesOf(The(combined))
             low == SelectSeq(entries, LAMBDA e :
                        e.score.score <= N(3) /\ ~e.score.notApplicable)
         IN  sortAscending([i \in DOMAIN low |->
                      [id |-> low[i].id, score |-> low[i].score.score]])

\* gaps of results: the rated entries with a score of at most 3, ascending
gapsOf(rated) ==
    sortAscending(SelectSeq(rated, LAMBDA e : e.score <= N(3)))

\* strengths of results: the rated entries with a score of at least 4,
\* descending
strengthsOf(rated) ==
    sortDescending(SelectSeq(rated, LAMBDA e : e.score >= N(4)))

RECURSIVE Sum(_)
\* scores.reduce((a, b) => a + b, 0)
Sum(scores) == IF scores = <<>> THEN 0 ELSE Head(scores) + Sum(Tail(scores))

\* results of AuditTool: None (null) when nothing is rated, else
\* Some(summary).  The average, a quotient, is kept as its numerator and
\* denominator.
resultsOf(r) ==
    LET rated == SelectSeq(entriesOf(r), LAMBDA e : e.score # NULL) IN
    IF Len(rated) = 0 THEN None
    ELSE Some([averageSum |-> Sum([i \in DOMAIN rated |-> rated[i].score]),
               averageCount |-> Len(rated),
               gaps |-> gapsOf(rated),
               strengths |-> strengthsOf(rated),
               totalRated |-> Len(rated)])

\* results of SharedReport, for the ratings of the report shown
sharedReportResultsOf(r) ==
    LET rated == SelectSeq(entriesOf(r), LAMBDA e : e.score # NULL) IN
    IF Len(rated) = 0 THEN None
    ELSE Some([averageSum |-> Sum([i \in DOMAIN rated |-> rated[i].score]),
               averageCount |-> Len(rated),
               gaps |-> sortAscending(
                            SelectSeq(rated, LAMBDA e : e.score <= N(3))),
               strengths |-> sortDescending(
                            SelectSeq(rated, LAMBDA e : e.score >= N(4))),
               totalRated |-> Len(rated)])

(***************************************************************************)
(* The refine-analysis endpoint (pages/api/refine-analysis.ts)             *)
(***************************************************************************)

\* One RefinedScore of a reply.  Its reasoning and actions, which the code
\* only displays, are not modelled.
RefinedScore(principleId, originalScore, refinedScore) ==
    [principleId |-> principleId, originalScore |-> originalScore,
     refinedScore |-> refinedScore]

\* an array of RefinedScore records
Array(items) == [isArray |-> TRUE, items |-> items]

\* a value that is truthy and cannot be iterated, such as an object
NotIterable == [isArray |-> FALSE, items |-> <<>>]

\* a parsed reply with a "refinedScores" key
RefineObject(value) == [refinedScores |-> value]

\* the body of a refine request; the answers, which reach only the prompt,
\* are not modelled
RefineRequest(originalScores) == [originalScores |-> originalScores]

\* POST of refine-analysis: the response, for a request, with the API key
\* configured or not (keySet), and the outcome of the oracle call should
\* the handler make it.  The parsed reply is returned as it is.
refinePOST(keySet, req, outcome) ==
    IF ~keySet
    THEN Response(500, "API key not configured", EmptyObject)
    ELSE IF Len(req.originalScores) = 0
    THEN Response(400, "No scores provided", EmptyObject)
    ELSE IF outcome.throws
    THEN Response(500, "oracle error", EmptyObject)
    ELSE IF ~outcome.hasText
    THEN Response(500, "No text response from API", EmptyObject)
    ELSE LET match == jsonMatch(outcome.text) IN
         IF match = None
         THEN Response(500, "Could not parse JSON from response", EmptyObject)
         ELSE LET parsed == parseJson(The(match)) IN
              IF parsed = None
              THEN Response(500, "SyntaxError", EmptyObject)
              ELSE Response(200, "", The(parsed))

(***************************************************************************)
(* Specification of the classifier alone: a name is chosen, then           *)
(* classified.                                                             *)
(***************************************************************************)

\* the longest name, in tokens
MaxTokens == 3

\* pieces of section names, in mixed case
Tokens ==
    { <<"P", "r", "e">>,
      <<"P", "r", "e", "-">>,
      <<"P", "o", "s", "t", " ">>,
      <<"P", "o", "s", "t", "-">>,
      <<"L", "e", "s", "s", "o", "n">>,
      <<" ", "Q", "u", "i", "z">>,
      <<"Q", "U", "I", "Z">>,
      <<"P", "o", "p">>,
      <<"F", "i", "n", "a", "l">>,
      <<"R", "e", "v", "i", "e", "w">>,
      <<"G", "a", "m", "e">> }

RECURSIVE NamesOf(_)
\* the names of at most n tokens
NamesOf(n) ==
    IF n = 0 THEN { <<>> }
    ELSE LET shorter == NamesOf(n - 1) IN
         shorter \cup { s \o t : s \in shorter, t \in Tokens }

Names == NamesOf(MaxTokens)

(***************************************************************************)
(* The reports endpoint (pages/api/reports.ts) and its table               *)
(***************************************************************************)

\* the body of a POST request, as shareReport sends it
Report(overallScore, reportRatings, reportSections, reportTakeaways) ==
    [overallScore |-> overallScore, ratings |-> reportRatings,
     sectionResults |-> reportSections, keyTakeaways |-> reportTakeaways]

\* a row of audit_reports, without its created_at, which the database sets
Row(id, report) ==
    [id |-> id, overall_score |-> report.overallScore,
     ratings |-> report.ratings, section_results |-> report.sectionResults,
     key_takeaways |-> report.keyTakeaways]

\* supabase.from('audit_reports').insert(row): the table after it, and
\* whether the database reports an error, which it does for a row whose
\* id is taken: audit_reports is a key-value store keyed by the id
insert(table, row) ==
    IF row.id \in DOMAIN table
    THEN [error |-> TRUE, table |-> table]
    ELSE [error |-> FALSE,
          table |-> [k \in DOMAIN table \cup {row.id} |->
                        IF k = row.id THEN row ELSE table[k]]]

\* .select('*').eq('id', id).single(): the row, or an error when there is
\* not exactly one
selectSingle(table, id) ==
    IF id \in DOMAIN table THEN [error |-> FALSE, data |-> Some(table[id])]
    ELSE [error |-> TRUE, data |-> None]

\* what a handler of the endpoint did: its response and the table after it
Stored(response, table) == [response |-> response, table |-> table]

\* a slip: the row is written over the row that has its id
reportsPOST_Upserts(configured, table, report, id) ==
    IF ~configured
    THEN Stored([status |-> 500, error |-> "Database not configured"],
                table)
    ELSE Stored([status |-> 200, id |-> id, url |-> <<"/audit/", id>>],
                [k \in DOMAIN table \cup {id} |->
                    IF k = id THEN Row(id, report) ELSE table[k]])

\* POST of the reports endpoint, for a report and the id nanoid(10) gives
reportsPOST(configured, table, report, id) ==
    IF ~configured
    THEN Stored([status |-> 500, error |-> "Database not configured"],
                table)
    ELSE LET inserted == insert(table, Row(id, report)) IN
         IF inserted.error
         THEN Stored([status |-> 500, error |-> "Failed to save report"],
                     inserted.table)
         ELSE Stored([status |-> 200, id |-> id, url |-> <<"/audit/", id>>],
                     inserted.table)

\* GET of the reports endpoint, for the parameter id, None when the URL
\* has none or an empty one
reportsGET(configured, table, id) ==
    IF ~configured
    THEN Stored([status |-> 500, error |-> "Database not configured"],
                table)
    ELSE IF id = None
    THEN Stored([status |-> 400, error |-> "Report ID required"], table)
    ELSE LET selected == selectSingle(table, The(id)) IN
         IF selected.error \/ selected.data = None
         THEN Stored([status |-> 404, error |-> "Report not found"], table)
         ELSE LET data == The(selected.data) IN
              Stored([status |-> 200, id |-> data.id,
                      overallScore |-> data.overall_score,
                      ratings |-> data.ratings,
                      sectionResults |-> data.section_results,
                      keyTakeaways |-> data.key_takeaways], table)

\* the table with no row
NoReports == [k \in {} |-> {}]

StoreIdle ==
    /\ supabase = TRUE
    /\ audit_reports = NoReports
    /\ exchange = None

(***************************************************************************)
(* The upfront context: the modal's submit filter (UpfrontContextModal.tsx)*)
(* and the block of the prompt built from it (analyze.ts)                  *)
(***************************************************************************)

\* upfrontQuestions, the first three: the id, the principleIds and the
\* values of the options of each
upfrontQuestions ==
    << [id |-> "spaced-learning", principleIds |-> <<"spaced-repetition">>,
        options |-> <<"none", "manual-review", "reminders",
                      "scheduled-review", "adaptive-spacing">>],
       [id |-> "quiz-feedback",
        principleIds |-> <<"retrieval-practice", "elaboration">>,
        options |-> <<"none", "correct-incorrect", "correct-answer",
                      "explanation", "adaptive-explanation">>],
       [id |-> "quiz-randomization",
        principleIds |-> <<"interleaving", "desirable-difficulties">>,
        options |-> <<"fixed", "shuffled", "pool", "mixed-topics",
                      "adaptive-selection">>] >>

\* an answer of UpfrontContextAnswers; freeText is a sequence of
\* characters
UpfrontAnswer(selectedOption, freeText) ==
    [selectedOption |-> selectedOption, freeText |-> freeText]

\* an entry of Object.entries of the answers
AnswerEntry(id, answer) == [id |-> id, answer |-> answer]

\* handleSubmit of the modal: filteredAnswers
handleSubmit(entries) ==
    SelectSeq(entries, LAMBDA e :
        e.answer.selectedOption # "" \/ trim(e.answer.freeText) # <<>>)

\* the lines buildUpfrontContextSection appends for one entry: nothing
\* when the question is not found or no option has the selected value
hintFor(entry) ==
    IF \A k \in DOMAIN upfrontQuestions :
           upfrontQuestions[k].id # entry.id
    THEN <<>>
    ELSE LET question ==
                 upfrontQuestions[CHOOSE k \in DOMAIN upfrontQuestions :
                                      upfrontQuestions[k].id = entry.id]
         IN  IF ~includes(question.options, entry.answer.selectedOption)
             THEN <<>>
             ELSE << [kind |-> "hint", question |-> question.id,
                      selected |-> entry.answer.selectedOption,
                      affects |-> question.principleIds,
                      additional |->
                          IF trim(entry.answer.freeText) # <<>>
                          THEN Some(entry.answer.freeText) ELSE None] >>

RECURSIVE hintsFor(_)
\* the for loop of buildUpfrontContextSection
hintsFor(entries) ==
    IF entries = <<>> THEN <<>>
    ELSE hintFor(Head(entries)) \o hintsFor(Tail(entries))

\* buildUpfrontContextSection: the block, a sequence of parts, empty for
\* no answers
buildUpfrontContextSection(upfrontContext) ==
    IF upfrontContext = <<>> THEN <<>>
    ELSE <<[kind |-> "header"]>> \o hintsFor(upfrontContext)
             \o <<[kind |-> "footer"]>>

UpfrontIdle ==
    /\ modalAnswers = <<>>
    /\ filteredAnswers = None
    /\ contextSection = None

FollowUpIdle ==
    /\ lowScoringPrinciples = <<>>
    /\ answers = <<>>
    /\ onComplete = None
    /\ leftVia = <<>>

TakeawayIdle ==
    /\ catalogue = <<>>
    /\ takeawayRatings = <<>>
    /\ keyTakeaways = NotYet

LinkIdle ==
    /\ link = None
    /\ opened = None

(***************************************************************************)
(* The missing-flow advisor (data/missingFlowsData.ts)                     *)
(***************************************************************************)

\* an entry of the table, with the fields the function reads
MissingFlowRecommendation(type, priority) ==
    [sectionType |-> type, priority |-> priority]

\* missingFlowRecommendations
missingFlowRecommendations ==
    << MissingFlowRecommendation("practice", "high"),
       MissingFlowRecommendation("quiz", "high"),
       MissingFlowRecommendation("pre-quiz", "medium"),
       MissingFlowRecommendation("post-quiz", "medium"),
       MissingFlowRecommendation("review", "medium") >>

\* priorityOrder of getMissingFlowRecommendations
priorityOrder == [high |-> 0, medium |-> 1, low |-> 2]

RECURSIVE insertByPriority(_, _)
\* rec put into the list s sorted by priority, after the entries that
\* compare equal to it
insertByPriority(s, rec) ==
    IF s = <<>> THEN <<rec>>
    ELSE IF priorityOrder[rec.priority] < priorityOrder[Head(s).priority]
         THEN <<rec>> \o s
         ELSE <<Head(s)>> \o insertByPriority(Tail(s), rec)

RECURSIVE sortByPriority(_)
\* .sort((a, b) => priorityOrder[a.priority] - priorityOrder[b.priority]),
\* a stable sort
sortByPriority(s) ==
    IF s = <<>> THEN <<>>
    ELSE insertByPriority(sortByPriority(SubSeq(s, 1, Len(s) - 1)),
                          s[Len(s)])

\* a slip: the quiz entry is kept when another quiz is present
getMissingFlowRecommendations_QuizAlways(present) ==
    sortByPriority(SelectSeq(missingFlowRecommendations,
        LAMBDA rec : ~includes(present, rec.sectionType)))

\* getMissingFlowRecommendations
getMissingFlowRecommendations(present) ==
    sortByPriority(SelectSeq(missingFlowRecommendations,
        LAMBDA rec :
            IF includes(present, rec.sectionType) THEN FALSE
            ELSE IF /\ rec.sectionType = "quiz"
                    /\ \/ includes(present, "pre-quiz")
                       \/ includes(present, "post-quiz")
                 THEN FALSE
                 ELSE TRUE))

AdvisorIdle ==
    /\ presentTypes = <<>>
    /\ recommendations = None

ClassifierIdle ==
    /\ sectionName = <<>>
    /\ detected = NotYet

FilterIdle ==
    /\ sectionType = "overall"
    /\ allPrincipleIds = <<>>
    /\ principleAppliesTo = <<>>
    /\ applicableIds = None

\* a request body: images is [isArray, length]
Request(images, name, type, notes) ==
    [images |-> images, sectionName |-> name, sectionType |-> type,
     sectionNotes |-> notes]

EndpointIdle ==
    /\ apiKey = TRUE
    /\ request = Request([isArray |-> FALSE, length |-> 0], None, Undefined,
                         FALSE)
    /\ oracleOutcome = None
    /\ handled = None

\* the call of analyzeSections: where it is ("idle" before the first call,
\* "awaiting" the response for section i, "failed" after the return from
\* the catch block in iteration i, "done" after the return at the end, in
\* both cases until the next call), and its locals sectionsWithImages and
\* results, which are gone when it has returned
Analysis(at, sectionsWithImages, i, results) ==
    [at |-> at, sectionsWithImages |-> sectionsWithImages, i |-> i,
     results |-> results]

\* the call of handleFollowUpComplete: where it is ("idle", or "awaiting"
\* the response), the ratings and the combinedAiScores it captured, and
\* the originalScores it sent
Refinement(at, captured, combined, originalScores) ==
    [at |-> at, ratings |-> captured, combinedAiScores |-> combined,
     originalScores |-> originalScores]

\* Object.fromEntries(principles.map((p) => [p.id, null]))
NoRatings == [id \in Range(principles) |-> NULL]

ClientIdle ==
    /\ mode = "manual"
    /\ ratings = NoRatings
    /\ sections = <<>>
    /\ sectionResults = <<>>
    /\ isAnalyzing = FALSE
    /\ analyzingSection = None
    /\ error = NoError
    /\ showFollowUp = FALSE
    /\ isRefining = FALSE
    /\ refinedScores = Array(<<>>)
    /\ currentIndex = 0
    /\ analysis = Analysis("idle", <<>>, 0, <<>>)
    /\ refinement = Refinement("idle", NoRatings, None, <<>>)

ClassifyInit ==
    /\ sectionName \in Names
    /\ detected = NotYet
    /\ FilterIdle
    /\ EndpointIdle
    /\ ClientIdle
    /\ AdvisorIdle
    /\ LinkIdle
    /\ StoreIdle
    /\ UpfrontIdle
    /\ FollowUpIdle
    /\ TakeawayIdle

Classify ==
    /\ detected = NotYet
    /\ detected' = detectSectionType(sectionName)
    /\ UNCHANGED <<sectionName, filterVars, endpointVars, clientVars,
                   advisorVars, linkVars, storeVars, upfrontVars,
                   followUpVars, takeawayVars>>

ClassifyNext == Classify

SpecClassify == ClassifyInit /\ [][ClassifyNext]_vars

(***************************************************************************)
(* Specification of the applicability filter alone: the arguments are      *)
(* chosen, then the filter is applied.                                     *)
(***************************************************************************)

\* how many ids the filtered list has at most
MaxFilterIds == 3

\* the ids the filtered lists are made of
FilterIdPool == { auditDataIds[i] : i \in 1..MaxFilterIds }

\* appliesTo arrays, among them the empty one
AppliesToChoices ==
    { <<>>, <<"quiz">>, <<"lesson", "overall">>, <<"pre-quiz", "quiz">> }

\* the sequences without repetition over a set
RECURSIVE Arrangements(_)
Arrangements(S) ==
    { <<>> } \cup
    UNION { { <<x>> \o rest : rest \in Arrangements(S \ {x}) } : x \in S }

FilterInit ==
    /\ sectionType \in SectionTypes
    /\ allPrincipleIds \in Arrangements(FilterIdPool)
    /\ \E defined \in SUBSET Range(allPrincipleIds) :
           principleAppliesTo \in [defined -> AppliesToChoices]
    /\ applicableIds = None
    /\ ClassifierIdle
    /\ EndpointIdle
    /\ ClientIdle
    /\ AdvisorIdle
    /\ LinkIdle
    /\ StoreIdle
    /\ UpfrontIdle
    /\ FollowUpIdle
    /\ TakeawayIdle

Filter ==
    /\ applicableIds = None
    /\ applicableIds' =
           Some(getApplicablePrincipleIds(sectionType, allPrincipleIds,
                                          principleAppliesTo))
    /\ UNCHANGED <<sectionType, allPrincipleIds, principleAppliesTo,
                   classifierVars, endpointVars, clientVars, advisorVars,
                   linkVars, storeVars, upfrontVars, followUpVars,
                   takeawayVars>>

FilterNext == Filter

SpecFilter == FilterInit /\ [][FilterNext]_vars

\* the position of an id in a list without repetition
PositionIn(ids, id) == CHOOSE i \in DOMAIN ids : ids[i] = id

\* whether the appliesTo of an id is undefined or empty
IsWildcard(id) ==
    \/ id \notin DOMAIN principleAppliesTo
    \/ principleAppliesTo[id] = <<>>

\* C6: the result of getApplicablePrincipleIds holds exactly the ids whose
\* appliesTo is undefined, empty or contains the section type, each once
\* and in the order of the input; an id with an undefined or empty appliesTo
\* is in the result for each of the eight section types.
C6_ExactlyTheApplicableInOrder ==
    applicableIds # None =>
        LET result == The(applicableIds)
            applies(id) ==
                \/ IsWildcard(id)
                \/ sectionType \in Range(principleAppliesTo[id])
        IN  /\ Range(result) =
                   { id \in Range(allPrincipleIds) : applies(id) }
            /\ Len(result) = Cardinality(Range(result))
            /\ \A i, j \in DOMAIN result :
                   i < j => PositionIn(allPrincipleIds, result[i])
                              < PositionIn(allPrincipleIds, result[j])
            /\ \A id \in Range(allPrincipleIds) :
                   IsWildcard(id) =>
                       \A t \in SectionTypes :
                           id \in Range(getApplicablePrincipleIds(
                                      t, allPrincipleIds, principleAppliesTo))

\* a list was filtered that has an id with an empty appliesTo, an id that
\* is left out, and two ids that are kept
C6_Witness ==
    /\ applicableIds # None
    /\ \E id \in Range(allPrincipleIds) :
           id \in DOMAIN principleAppliesTo /\ principleAppliesTo[id] = <<>>
    /\ Len(The(applicableIds)) >= 2
    /\ Len(The(applicableIds)) < Len(allPrincipleIds)

(***************************************************************************)
(* Specification of the analyze endpoint alone: a request arrives, the     *)
(* handler answers it, calling the oracle if it gets that far.             *)
(***************************************************************************)

\* the images fields of the requests: absent, not an array, and arrays of
\* no, one, the most allowed and one more than the most allowed images
ImagesChoices ==
    { [isArray |-> FALSE, length |-> 0], [isArray |-> FALSE, length |-> 1] }
    \cup
    { [isArray |-> TRUE, length |-> n] :
        n \in {0, 1, MAX_IMAGES_PER_SECTION, MAX_IMAGES_PER_SECTION + 1} }

\* the sectionName fields of the requests: absent, empty, and presets
NameChoices ==
    { None, Some(<<>>), Some(PreLessonQuiz), Some(PostLessonQuiz),
      Some(ReviewSummary), Some(LessonInstruction) }

\* the scores maps the oracle answers with, when asked about the ids in
\* asked: an entry for each, for all but the first, for none, and for
\* every id of the catalogue
ScoresMaps(asked, entries) ==
    LET answered ==
            { Range(asked), Range(asked) \ { asked[i] : i \in {1} \cap DOMAIN asked },
              {}, Range(auditDataIds) }
    IN  UNION { [ids -> {e}] : ids \in answered, e \in entries }

\* the reply texts around an object: the object alone, in prose, and
\* followed by prose with a pair of braces in it
TextsAround(object) ==
    { <<JsonText(object)>>, <<Prose, JsonText(object), Prose>>,
      <<JsonText(object), Prose, LBrace, RBrace, Prose>> }

\* an outcome of the oracle call: it throws, or it returns a message, with
\* a text block or without one
Outcome(throws, hasText, text) ==
    [throws |-> throws, hasText |-> hasText, text |-> text]

\* the outcomes of the oracle call when asked about the ids in asked
EndpointOutcomes(asked) ==
    { Outcome(TRUE, FALSE, <<>>), Outcome(FALSE, FALSE, <<>>),
      Outcome(FALSE, TRUE, <<Prose>>),
      Outcome(FALSE, TRUE, <<LBrace, Prose, RBrace>>),
      Outcome(FALSE, TRUE, <<LBrace, RBrace>>) }
    \cup
    { Outcome(FALSE, TRUE, text) :
        text \in UNION { TextsAround(object) :
            object \in { EmptyObject } \cup
                { Object(TRUE, scores) :
                    scores \in ScoresMaps(asked,
                                  { Entry(N(3), FALSE), Entry(N(5), TRUE) }) } } }

EndpointInit ==
    /\ apiKey \in BOOLEAN
    /\ request \in
           { Request(images, name, type, notes) :
               images \in ImagesChoices, name \in NameChoices,
               type \in SectionTypes \cup {Undefined}, notes \in BOOLEAN }
    /\ oracleOutcome = None
    /\ handled = None
    /\ ClassifierIdle
    /\ FilterIdle
    /\ ClientIdle
    /\ AdvisorIdle
    /\ LinkIdle
    /\ StoreIdle
    /\ UpfrontIdle
    /\ FollowUpIdle
    /\ TakeawayIdle

HandleAnalyze ==
    /\ handled = None
    /\ \E outcome \in EndpointOutcomes(
                          getApplicablePrincipleIds(
                              resolveSectionType(request), auditDataIds,
                              auditDataAppliesTo)) :
           /\ oracleOutcome' = Some(outcome)
           /\ handled' = Some(POST(apiKey, request, outcome))
    /\ UNCHANGED <<apiKey, request, classifierVars, filterVars, clientVars,
                   advisorVars, linkVars, storeVars, upfrontVars,
                   followUpVars, takeawayVars>>

EndpointNext == HandleAnalyze

SpecEndpoint == EndpointInit /\ [][EndpointNext]_vars

\* whether a principle applies to a section type, by the catalogue
AppliesTo(id, type) ==
    \/ auditDataAppliesTo[id] = <<>>
    \/ type \in Range(auditDataAppliesTo[id])

\* C4: every answer with status 200 has a scores map with an entry for
\* every principle of the catalogue, and the entry of every principle that
\* does not apply to the resolved section type is the not-applicable entry
\* (score 0, notApplicable true).
C4_EveryPrincipleInEveryAnswer ==
    (handled # None /\ The(handled).response.status = 200) =>
        LET result == The(handled).response.result
            type == The(handled).resolvedSectionType
        IN  /\ result.hasScores
            /\ Range(auditDataIds) \subseteq DOMAIN result.scores
            /\ \A id \in Range(auditDataIds) :
                   ~AppliesTo(id, type) =>
                       result.scores[id] = NotApplicableEntry

\* the lines of a prompt after the listing header and before the format
\* instruction
ListingOf(prompt) ==
    LET header == CHOOSE i \in DOMAIN prompt :
                      prompt[i].kind = "listing-header"
    IN  SubSeq(prompt, header + 1, Len(prompt) - 1)

\* C7: the rubric listing of a prompt sent to the oracle consists of one
\* block per principle that applies to the resolved section type, in
\* catalogue order, each block being the id, the question, the rubric
\* header, the rubric levels 1 to 5 of that principle and an empty line;
\* the listing for pre-quiz names interleaving nowhere and the listing for
\* post-quiz has its block.
C7_ListingIsTheApplicableBlocks ==
    (handled # None /\ The(handled).prompt # None) =>
        LET prompt == The(The(handled).prompt)
            type == The(handled).resolvedSectionType
            listing == ListingOf(prompt)
            expected == SelectSeq(auditDataIds,
                                  LAMBDA id : AppliesTo(id, type))
            headings == SelectSeq(listing, LAMBDA l : l.kind = "heading")
        IN  /\ Cardinality({ i \in DOMAIN prompt :
                               prompt[i].kind = "listing-header" }) = 1
            /\ prompt[Len(prompt)].kind = "format"
            /\ [i \in DOMAIN headings |-> headings[i].arg] = expected
            /\ Len(listing) = 9 * Len(expected)
            /\ \A k \in DOMAIN expected :
                   LET base == 9 * (k - 1) IN
                   /\ listing[base + 1] = Line("heading", expected[k], 0)
                   /\ listing[base + 2] = Line("question", expected[k], 0)
                   /\ listing[base + 3].kind = "rubric-header"
                   /\ \A i \in 1..5 :
                          listing[base + 3 + i]
                            = Line("rubric", expected[k], i)
                   /\ listing[base + 9].kind = "blank"
            /\ type = "pre-quiz" =>
                   \A i \in DOMAIN listing : listing[i].arg # "interleaving"
            /\ type = "post-quiz" =>
                   \E i \in DOMAIN listing :
                       listing[i] = Line("heading", "interleaving", 0)

\* a prompt was sent for a section named "Pre-Lesson Quiz" whose type was
\* detected from the name
C7_Witness ==
    /\ handled # None
    /\ The(handled).prompt # None
    /\ request.sectionName = Some(PreLessonQuiz)
    /\ request.sectionType = Undefined
    /\ The(handled).resolvedSectionType = "pre-quiz"

\* the order in which the pattern groups are tried
GroupOrder ==
    <<"pre-quiz", "post-quiz", "quiz", "practice", "review", "onboarding",
      "lesson">>

\* the pattern of a group
PatternOf(type) ==
    CASE type = "pre-quiz"   -> preQuizPattern
      [] type = "post-quiz"  -> postQuizPattern
      [] type = "quiz"       -> quizPattern
      [] type = "practice"   -> practicePattern
      [] type = "review"     -> reviewPattern
      [] type = "onboarding" -> onboardingPattern
      [] type = "lesson"     -> lessonPattern

PopQuiz == <<"P", "o", "p", " ", "Q", "u", "i", "z">>

\* C5: detectSectionType always returns one of the seven section types it
\* knows; the type is that of the first group, in the order pre-quiz,
\* post-quiz, quiz, practice, review, onboarding, lesson, with an alternative
\* that occurs in the lower-cased name, and lesson when no group has one; so
\* "Post-Lesson Quiz" is a post-quiz and "Pop Quiz" a quiz.
C5_FirstMatchingGroup ==
    detected # NotYet =>
        LET lowered == toLowerCase(sectionName)
            matching == { i \in 1..Len(GroupOrder) :
                            test(PatternOf(GroupOrder[i]), lowered) }
        IN  /\ detected \in SectionTypes \ {"overall"}
            /\ matching = {} => detected = "lesson"
            /\ matching # {} =>
                   \E i \in matching :
                       /\ \A j \in matching : i <= j
                       /\ detected = GroupOrder[i]
            /\ sectionName = PostLessonQuiz => detected = "post-quiz"
            /\ sectionName = PopQuiz => detected = "quiz"

\* a name that matches the post-quiz group and the generic quiz group has
\* been classified
C5_Witness ==
    /\ sectionName = PostLessonQuiz
    /\ test(quizPattern, toLowerCase(sectionName))
    /\ detected = "post-quiz"

(***************************************************************************)
(* The AuditTool component: the state on mount                             *)
(***************************************************************************)

Digits == <<"0", "1", "2", "3", "4", "5", "6", "7", "8", "9">>

\* the value of a digit
digitValue(c) == (CHOOSE d \in DOMAIN Digits : Digits[d] = c) - 1

RECURSIVE split(_, _)
\* encoded.split(','): the pieces between the separators
split(s, separator) ==
    IF \A k \in DOMAIN s : s[k] # separator THEN <<s>>
    ELSE LET first == CHOOSE k \in DOMAIN s :
                          /\ s[k] = separator
                          /\ \A j \in 1..(k - 1) : s[j] # separator
         IN  <<SubSeq(s, 1, first - 1)>>
                 \o split(SubSeq(s, first + 1, Len(s)), separator)

RECURSIVE digitsFrom(_, _, _, _)
\* the digits of s from position k on, up to the first character that is
\* none: whether there is one, and the value read
digitsFrom(s, k, any, value) ==
    IF k > Len(s) \/ s[k] \notin Range(Digits)
    THEN [any |-> any, value |-> value]
    ELSE digitsFrom(s, k + 1, TRUE, 10 * value + digitValue(s[k]))

\* parseInt(s, 10): None for NaN, else Some(number).  Leading blanks are
\* skipped, a sign is read, then digits up to the first other character.
parseInt(s) ==
    LET blanks == { k \in DOMAIN s : \A j \in 1..k : s[j] = " " }
        start == Cardinality(blanks) + 1
        signed == start <= Len(s) /\ s[start] \in {"-", "+"}
        read == digitsFrom(s, IF signed THEN start + 1 ELSE start, FALSE, 0)
    IN  IF ~read.any THEN None
        ELSE IF signed /\ s[start] = "-" THEN Some(N(0 - read.value))
        ELSE Some(N(read.value))

\* a slip: a score of 0 in the link is read as the score zero
ratingsFromLink_ZeroIsAScore(encoded) ==
    LET pieces == split(encoded, ",")
        scores == [k \in DOMAIN pieces |-> parseInt(pieces[k])]
    IN  [id \in Range(principles) |->
            LET k == CHOOSE j \in DOMAIN principles : principles[j] = id IN
            IF k <= Len(scores) /\ scores[k] # None THEN The(scores[k])
            ELSE NULL]

\* "Parse URL params on mount": the ratings for the value of the parameter r
ratingsFromLink(encoded) ==
    LET pieces == split(encoded, ",")
        scores == [k \in DOMAIN pieces |-> parseInt(pieces[k])]
    IN  [id \in Range(principles) |->
            LET k == CHOOSE j \in DOMAIN principles : principles[j] = id IN
            IF k <= Len(scores) /\ scores[k] # None /\ The(scores[k]) > 0
            THEN The(scores[k])
            ELSE NULL]

RECURSIVE digitsOf(_)
\* the decimal digits of a natural number
digitsOf(n) ==
    IF n < 10 THEN <<Digits[n + 1]>>
    ELSE digitsOf(n \div 10) \o <<Digits[(n % 10) + 1]>>

\* String(x) for a number x, as join writes it
numberToString(x) ==
    LET magnitude == IF x < 0 THEN 0 - x ELSE x IN
    (IF x < 0 THEN <<"-">> ELSE <<>>)
        \o digitsOf(magnitude \div 2)
        \o (IF magnitude % 2 = 1 THEN <<".", "5">> ELSE <<>>)

RECURSIVE join(_, _)
\* Array.prototype.join for an array of strings
join(array, separator) ==
    IF array = <<>> THEN <<>>
    ELSE IF Len(array) = 1 THEN array[1]
    ELSE array[1] \o <<separator>> \o join(Tail(array), separator)

\* scores of shareLegacyUrl: principles.map((p) => ratings[p.id] ?? 0)
\* joined with commas
legacyScores(r) ==
    join([k \in DOMAIN principles |->
             IF principles[k] \notin DOMAIN r \/ r[principles[k]] = NULL
             THEN numberToString(0)
             ELSE numberToString(r[principles[k]])], ",")

\* the values of the parameter r the page is opened with: "4,3", "x,0", "2"
LinkParams == { <<"4", ",", "3">>, <<"x", ",", "0">>, <<"2">> }

\* the state after the component is mounted: the initial state, with the
\* ratings of the link when the page is opened with a non-empty parameter r
Mounted ==
    /\ mode = "manual"
    /\ \/ ratings = NoRatings
       \/ \E encoded \in LinkParams : ratings = ratingsFromLink(encoded)
    /\ sections = <<>>
    /\ sectionResults = <<>>
    /\ isAnalyzing = FALSE
    /\ analyzingSection = None
    /\ error = NoError
    /\ showFollowUp = FALSE
    /\ isRefining = FALSE
    /\ refinedScores = Array(<<>>)
    /\ currentIndex = 0
    /\ analysis = Analysis("idle", <<>>, 0, <<>>)
    /\ refinement = Refinement("idle", NoRatings, None, <<>>)

(***************************************************************************)
(* The AuditTool component: what the user does                             *)
(***************************************************************************)

\* how many sections the user adds at most
MaxSections == 2

\* one Section: its name and the number of its images.  Its id is its
\* place in the list; its notes, which reach only the prompt, are not
\* modelled.
Section(name, images) == [name |-> name, images |-> images]

\* the names the user gives to sections: two presets, a preset typed with
\* blanks around it, and a blank
SectionNames ==
    { ReviewSummary, PracticeActivity, <<" ">> \o PracticeActivity \o <<" ">>,
      <<" ">> }

\* the numbers of images the user gives to a section
ImageCounts == {0, 1}

\* the scores the user gives by hand, of the 1 to 5 of a rating card
ManualScores == {N(3), N(4)}

\* the section editor is shown and enabled
CanEditSections ==
    /\ mode = "ai"
    /\ Len(sectionResults) = 0
    /\ ~isAnalyzing

\* the progress bar and, behind the "Continue Rating" toggle, the rating
\* cards are shown.  showResults, which the user toggles freely once a
\* principle is rated, is not modelled.
RatingShown == mode = "manual" \/ (Len(sectionResults) > 0 /\ ~showFollowUp)

sections_Without(k) ==
    [j \in 1..(Len(sections) - 1) |->
        IF j < k THEN sections[j] ELSE sections[j + 1]]

\* resetAudit
resetAudit ==
    /\ ratings' = NoRatings
    /\ sections' = <<>>
    /\ sectionResults' = <<>>
    /\ showFollowUp' = FALSE
    /\ refinedScores' = Array(<<>>)
    /\ error' = NoError
    /\ currentIndex' = 0

\* addSection, from the name field or a preset button
AddSection ==
    /\ CanEditSections
    /\ Len(sections) < MaxSections
    /\ \E name \in SectionNames :
           sections' = IF trim(name) = <<>> THEN sections
                       ELSE Append(sections, Section(trim(name), 0))
    /\ UNCHANGED <<mode, ratings, sectionResults, isAnalyzing,
                   analyzingSection, error, showFollowUp, isRefining,
                   refinedScores, analysis, refinement>>
    /\ UNCHANGED currentIndex
    /\ UNCHANGED <<classifierVars, filterVars, endpointVars, advisorVars,
                   linkVars, storeVars, upfrontVars, followUpVars,
                   takeawayVars>>

\* removeSection
RemoveSection ==
    /\ CanEditSections
    /\ \E k \in DOMAIN sections : sections' = sections_Without(k)
    /\ UNCHANGED <<mode, ratings, sectionResults, isAnalyzing,
                   analyzingSection, error, showFollowUp, isRefining,
                   refinedScores, analysis, refinement>>
    /\ UNCHANGED currentIndex
    /\ UNCHANGED <<classifierVars, filterVars, endpointVars, advisorVars,
                   linkVars, storeVars, upfrontVars, followUpVars,
                   takeawayVars>>

\* updateSectionImages, from the uploader of a section
UpdateSectionImages ==
    /\ CanEditSections
    /\ \E k \in DOMAIN sections, images \in ImageCounts :
           sections' = [sections EXCEPT ![k].images = images]
    /\ UNCHANGED <<mode, ratings, sectionResults, isAnalyzing,
                   analyzingSection, error, showFollowUp, isRefining,
                   refinedScores, analysis, refinement>>
    /\ UNCHANGED currentIndex
    /\ UNCHANGED <<classifierVars, filterVars, endpointVars, advisorVars,
                   linkVars, storeVars, upfrontVars, followUpVars,
                   takeawayVars>>

\* handleRating, from a rating card
Rate ==
    /\ RatingShown
    /\ \E id \in Range(principles), score \in ManualScores :
           ratings' = [ratings EXCEPT ![id] = score]
    /\ UNCHANGED <<mode, sections, sectionResults, isAnalyzing,
                   analyzingSection, error, showFollowUp, isRefining,
                   refinedScores, analysis, refinement>>
    /\ UNCHANGED currentIndex
    /\ UNCHANGED <<classifierVars, filterVars, endpointVars, advisorVars,
                   linkVars, storeVars, upfrontVars, followUpVars,
                   takeawayVars>>

\* the mode buttons: setMode, then resetAudit
SetMode ==
    /\ \E m \in {"manual", "ai"} : mode' = m
    /\ resetAudit
    /\ UNCHANGED <<isAnalyzing, analyzingSection, isRefining, analysis,
                   refinement>>
    /\ UNCHANGED <<classifierVars, filterVars, endpointVars, advisorVars,
                   linkVars, storeVars, upfrontVars, followUpVars,
                   takeawayVars>>

\* the "Start Over" button of the progress bar
StartOver ==
    /\ RatingShown
    /\ Len(sectionResults) > 0
    /\ resetAudit
    /\ UNCHANGED <<mode, isAnalyzing, analyzingSection, isRefining, analysis,
                   refinement>>
    /\ UNCHANGED <<classifierVars, filterVars, endpointVars, advisorVars,
                   linkVars, storeVars, upfrontVars, followUpVars,
                   takeawayVars>>

(***************************************************************************)
(* The AuditTool component: analyzeSections, with the analyze endpoint     *)
(* answering its requests.  The endpoint keeps nothing between requests,   *)
(* so the response to a request in flight is drawn in the step that        *)
(* continues the handler after its await.                                  *)
(***************************************************************************)

\* a slip in the filter: every section is analysed, with images or not
sectionsWithImagesOf_All(all) == all

\* sections.filter((s) => s.images.length > 0)
sectionsWithImagesOf(all) == SelectSeq(all, LAMBDA section : section.images > 0)

\* the body of the request for a section
AnalyzeRequest(section) ==
    Request([isArray |-> TRUE, length |-> section.images],
            Some(section.name), Undefined, FALSE)

\* the entries the oracle gives to a principle in the whole tool: a gap,
\* and a score between a gap and a strength
OracleEntries == { Entry(N(3), FALSE), Entry(N(3) + 1, FALSE) }

\* the entries the oracle gives to a principle when only the analysis is
\* looked at: a zero, two gaps, a strength, and a strength marked
\* notApplicable
AnalysisEntries ==
    { Entry(0, FALSE), Entry(N(2), FALSE), Entry(N(3), FALSE),
      Entry(N(4), FALSE), Entry(N(4), TRUE) }

\* the outcomes of the oracle call for a request: it throws, or it answers
\* with a scores map that gives an entry to some of the principles of the
\* component it was asked about
AnalyzeOutcomes(req, entries) ==
    LET asked == Range(getApplicablePrincipleIds(
                           resolveSectionType(req), auditDataIds,
                           auditDataAppliesTo))
                     \cap Range(principles)
    IN  { Outcome(TRUE, FALSE, <<>>) }
        \cup
        { Outcome(FALSE, TRUE, <<JsonText(Object(TRUE, scores))>>) :
            scores \in UNION { [ids -> entries] : ids \in SUBSET asked } }

\* the responses the endpoint may give to the request in flight
AnalyzeResponses(entries) ==
    LET req == AnalyzeRequest(analysis.sectionsWithImages[analysis.i]) IN
    { POST(apiKey, req, outcome).response :
        outcome \in AnalyzeOutcomes(req, entries) }

\* analyzeSections up to its first await: the "Analyze" button
AnalyzeStart ==
    /\ mode = "ai"
    /\ Len(sectionResults) = 0
    /\ ~isAnalyzing
    /\ Len(sectionsWithImagesOf(sections)) > 0
    /\ isAnalyzing' = TRUE
    /\ error' = NoError
    /\ sectionResults' = <<>>
    /\ analyzingSection' = Some(sectionsWithImagesOf(sections)[1].name)
    /\ analysis' = Analysis("awaiting", sectionsWithImagesOf(sections), 1,
                            <<>>)
    /\ UNCHANGED <<mode, ratings, sections, showFollowUp, isRefining,
                   refinedScores, refinement>>
    /\ UNCHANGED currentIndex
    /\ UNCHANGED <<classifierVars, filterVars, endpointVars, advisorVars,
                   linkVars, storeVars, upfrontVars, followUpVars,
                   takeawayVars>>

\* a slip in the catch block: the results of the sections analysed before
\* the failure are kept
AnalyzeFails_KeepsResults ==
    /\ analysis.at = "awaiting"
    /\ \E response \in AnalyzeResponses(OracleEntries) :
           /\ response.status # 200
           /\ error' = errorOr(response.error,
                   analysisFailedFor(
                       analysis.sectionsWithImages[analysis.i].name))
    /\ isAnalyzing' = FALSE
    /\ analyzingSection' = None
    /\ sectionResults' = analysis.results
    /\ analysis' = Analysis("failed", <<>>, analysis.i, <<>>)
    /\ UNCHANGED <<mode, ratings, sections, showFollowUp,
                   isRefining, refinedScores, refinement>>
    /\ UNCHANGED currentIndex
    /\ UNCHANGED <<classifierVars, filterVars, endpointVars, advisorVars,
                   linkVars, storeVars, upfrontVars, followUpVars,
                   takeawayVars>>

\* analyzeSections after an await, the response not ok: the throw and the
\* catch block
AnalyzeFails ==
    /\ analysis.at = "awaiting"
    /\ \E response \in AnalyzeResponses(OracleEntries) :
           /\ response.status # 200
           /\ error' = errorOr(response.error,
                   analysisFailedFor(
                       analysis.sectionsWithImages[analysis.i].name))
    /\ isAnalyzing' = FALSE
    /\ analyzingSection' = None
    /\ analysis' = Analysis("failed", <<>>, analysis.i, <<>>)
    /\ UNCHANGED <<mode, ratings, sections, sectionResults, showFollowUp,
                   isRefining, refinedScores, refinement>>
    /\ UNCHANGED currentIndex
    /\ UNCHANGED <<classifierVars, filterVars, endpointVars, advisorVars,
                   linkVars, storeVars, upfrontVars, followUpVars,
                   takeawayVars>>

\* results after results.push for a response
resultsWith(response) ==
    Append(analysis.results,
           SectionResult(analysis.sectionsWithImages[analysis.i].name,
                         response.result.scores))

\* analyzeSections after an await, the response ok and a section left: the
\* push and the next iteration up to its await
AnalyzeNextWith(entries) ==
    /\ analysis.at = "awaiting"
    /\ analysis.i < Len(analysis.sectionsWithImages)
    /\ \E response \in AnalyzeResponses(entries) :
           /\ response.status = 200
           /\ analysis' = Analysis("awaiting", analysis.sectionsWithImages,
                                   analysis.i + 1, resultsWith(response))
    /\ analyzingSection' =
           Some(analysis.sectionsWithImages[analysis.i + 1].name)
    /\ UNCHANGED <<mode, ratings, sections, sectionResults, isAnalyzing,
                   error, showFollowUp, isRefining, refinedScores,
                   refinement>>
    /\ UNCHANGED currentIndex
    /\ UNCHANGED <<classifierVars, filterVars, endpointVars, advisorVars,
                   linkVars, storeVars, upfrontVars, followUpVars,
                   takeawayVars>>

AnalyzeNext == AnalyzeNextWith(OracleEntries)

AnalyzeNextAny == AnalyzeNextWith(AnalysisEntries)

\* analyzeSections after the last await, the response ok: the push and the
\* code after the loop
AnalyzeFinishWith(entries) ==
    /\ analysis.at = "awaiting"
    /\ analysis.i = Len(analysis.sectionsWithImages)
    /\ \E response \in AnalyzeResponses(entries) :
           /\ response.status = 200
           /\ sectionResults' = resultsWith(response)
           /\ ratings' = newRatingsOf(resultsWith(response))
           /\ LET lowScoring ==
                      { id \in Range(principles) :
                          /\ newRatingsOf(resultsWith(response))[id] # NULL
                          /\ newRatingsOf(resultsWith(response))[id] <= N(3) }
              IN  showFollowUp' =
                      IF lowScoring # {} THEN TRUE ELSE showFollowUp
    /\ isAnalyzing' = FALSE
    /\ analyzingSection' = None
    /\ analysis' = Analysis("done", <<>>, 0, <<>>)
    /\ UNCHANGED <<mode, sections, error, isRefining, refinedScores,
                   refinement>>
    /\ currentIndex' = 0
    /\ UNCHANGED <<classifierVars, filterVars, endpointVars, advisorVars,
                   linkVars, storeVars, upfrontVars, followUpVars,
                   takeawayVars>>

AnalyzeFinish == AnalyzeFinishWith(OracleEntries)

AnalyzeFinishAny == AnalyzeFinishWith(AnalysisEntries)

(***************************************************************************)
(* The AuditTool component: the follow-up questions and                    *)
(* handleFollowUpComplete, with the refine-analysis endpoint answering     *)
(***************************************************************************)

\* the FollowUpQuestions component is shown
FollowUpShown ==
    /\ mode = "ai"
    /\ showFollowUp
    /\ Len(lowScoringPrinciplesOf(sectionResults)) > 0
    /\ ~isRefining

\* isLast of the follow-up questions
isLast == currentIndex = Len(lowScoringPrinciplesOf(sectionResults)) - 1

\* handleNext and handleSkipQuestion of the follow-up questions, on a
\* question that is not the last: the next question is shown
FollowUpNext ==
    /\ FollowUpShown
    /\ ~isLast
    /\ currentIndex' = currentIndex + 1
    /\ UNCHANGED <<mode, ratings, sections, sectionResults, isAnalyzing,
                   analyzingSection, error, showFollowUp, isRefining,
                   refinedScores, analysis, refinement>>
    /\ UNCHANGED <<classifierVars, filterVars, endpointVars, advisorVars,
                   linkVars, storeVars, upfrontVars, followUpVars,
                   takeawayVars>>

\* handlePrevious of the follow-up questions
FollowUpPrevious ==
    /\ FollowUpShown
    /\ currentIndex # 0
    /\ currentIndex' = IF currentIndex - 1 > 0 THEN currentIndex - 1 ELSE 0
    /\ UNCHANGED <<mode, ratings, sections, sectionResults, isAnalyzing,
                   analyzingSection, error, showFollowUp, isRefining,
                   refinedScores, analysis, refinement>>
    /\ UNCHANGED <<classifierVars, filterVars, endpointVars, advisorVars,
                   linkVars, storeVars, upfrontVars, followUpVars,
                   takeawayVars>>

\* originalScores of handleFollowUpComplete
originalScoresOf(results) ==
    LET low == lowScoringPrinciplesOf(results) IN
    [k \in DOMAIN low |-> [principleId |-> low[k].id, score |-> low[k].score]]

\* the arrays of RefinedScore records the oracle answers with when sent
\* originalScores: a record for each principle sent that repeats its
\* score; a record for the first principle sent with another original
\* score; and a record for every principle of the component, sent or not
RefinedLists(originalScores) ==
    { [k \in DOMAIN originalScores |->
          RefinedScore(originalScores[k].principleId,
                       originalScores[k].score, N(4))],
      <<RefinedScore(originalScores[1].principleId, N(5), N(4))>>,
      [k \in DOMAIN principles |-> RefinedScore(principles[k], N(3), N(4))] }

\* the outcomes of the oracle call of the refine endpoint: it throws, it
\* answers with an empty object, with refinedScores that is no array, or
\* with an array of records
RefineOutcomes(originalScores) ==
    { Outcome(TRUE, FALSE, <<>>), Outcome(FALSE, TRUE, <<LBrace, RBrace>>),
      Outcome(FALSE, TRUE, <<JsonText(RefineObject(NotIterable))>>) }
    \cup
    { Outcome(FALSE, TRUE, <<JsonText(RefineObject(Array(list)))>>) :
        list \in RefinedLists(originalScores) }

\* the responses the refine endpoint may give to the request in flight
RefineResponses ==
    { refinePOST(apiKey, RefineRequest(refinement.originalScores), outcome) :
        outcome \in RefineOutcomes(refinement.originalScores) }

\* a skip that also starts over
FollowUpSkip_StartsOver ==
    /\ FollowUpShown
    /\ resetAudit
    /\ UNCHANGED <<mode, isAnalyzing, analyzingSection, isRefining, analysis,
                   refinement>>
    /\ UNCHANGED <<classifierVars, filterVars, endpointVars, advisorVars,
                   linkVars, storeVars, upfrontVars, followUpVars,
                   takeawayVars>>

\* handleFollowUpSkip, from the "Skip to Results" button of the follow-up
\* questions, which is there on every question
FollowUpSkip ==
    /\ FollowUpShown
    /\ showFollowUp' = FALSE
    /\ UNCHANGED <<mode, ratings, sections, sectionResults, isAnalyzing,
                   analyzingSection, error, isRefining, refinedScores,
                   analysis, refinement>>
    /\ currentIndex' = 0
    /\ UNCHANGED <<classifierVars, filterVars, endpointVars, advisorVars,
                   linkVars, storeVars, upfrontVars, followUpVars,
                   takeawayVars>>

\* handleFollowUpComplete up to its await, called by the follow-up
\* questions when the last one is answered or skipped
FollowUpComplete ==
    /\ FollowUpShown
    /\ isLast
    /\ combinedAiScoresOf(sectionResults) # None
    /\ isRefining' = TRUE
    /\ error' = NoError
    /\ refinement' = Refinement("awaiting", ratings,
                                combinedAiScoresOf(sectionResults),
                                originalScoresOf(sectionResults))
    /\ UNCHANGED <<mode, ratings, sections, sectionResults, isAnalyzing,
                   analyzingSection, showFollowUp, refinedScores, analysis>>
    /\ currentIndex' = 0
    /\ UNCHANGED <<classifierVars, filterVars, endpointVars, advisorVars,
                   linkVars, storeVars, upfrontVars, followUpVars,
                   takeawayVars>>

\* data.refinedScores || [] for the body of a response
refinedScoresOrEmpty(data) ==
    IF "refinedScores" \in DOMAIN data THEN data.refinedScores
    ELSE Array(<<>>)

RECURSIVE withRefined(_, _)
\* the loop "Update ratings with refined scores": newRatings after the
\* records of items, the later ones written over the earlier
withRefined(newRatings, items) ==
    IF items = <<>> THEN newRatings
    ELSE withRefined(
             [id \in DOMAIN newRatings \cup {Head(items).principleId} |->
                 IF id = Head(items).principleId
                 THEN Head(items).refinedScore
                 ELSE newRatings[id]],
             Tail(items))

\* handleFollowUpComplete has returned
RefinementReturns == refinement' = Refinement("idle", NoRatings, None, <<>>)

\* handleFollowUpComplete after the await, the response not ok: the throw,
\* the catch and the finally block
RefineFails ==
    /\ refinement.at = "awaiting"
    /\ \E response \in RefineResponses :
           /\ response.status # 200
           /\ error' = errorOr(response.error,
                               <<"Failed to refine analysis">>)
    /\ isRefining' = FALSE
    /\ showFollowUp' = FALSE
    /\ RefinementReturns
    /\ UNCHANGED <<mode, ratings, sections, sectionResults, isAnalyzing,
                   analyzingSection, refinedScores, analysis>>
    /\ currentIndex' = 0
    /\ UNCHANGED <<classifierVars, filterVars, endpointVars, advisorVars,
                   linkVars, storeVars, upfrontVars, followUpVars,
                   takeawayVars>>

\* handleFollowUpComplete after the await, the response ok: the refined
\* scores are stored and written into the ratings captured by the call;
\* the loop throws when data.refinedScores cannot be iterated
RefineSucceeds ==
    /\ refinement.at = "awaiting"
    /\ \E response \in RefineResponses :
           /\ response.status = 200
           /\ LET stored == refinedScoresOrEmpty(response.result) IN
              /\ refinedScores' = stored
              /\ IF stored.isArray
                 THEN /\ ratings' =
                             withRefined(refinement.ratings, stored.items)
                      /\ error' = error
                 ELSE /\ ratings' = ratings
                      /\ error' = <<"TypeError">>
    /\ isRefining' = FALSE
    /\ showFollowUp' = FALSE
    /\ RefinementReturns
    /\ UNCHANGED <<mode, sections, sectionResults, isAnalyzing,
                   analyzingSection, analysis>>
    /\ currentIndex' = 0
    /\ UNCHANGED <<classifierVars, filterVars, endpointVars, advisorVars,
                   linkVars, storeVars, upfrontVars, followUpVars,
                   takeawayVars>>

(***************************************************************************)
(* Specification of the audit tool: the component is mounted, then the     *)
(* user and the continuations of the two asynchronous handlers take steps  *)
(* in any order.                                                           *)
(***************************************************************************)

Init ==
    /\ Mounted
    /\ apiKey \in BOOLEAN
    /\ request = Request([isArray |-> FALSE, length |-> 0], None, Undefined,
                         FALSE)
    /\ oracleOutcome = None
    /\ handled = None
    /\ ClassifierIdle
    /\ FilterIdle
    /\ AdvisorIdle
    /\ LinkIdle
    /\ StoreIdle
    /\ UpfrontIdle
    /\ FollowUpIdle
    /\ TakeawayIdle

Next ==
    \/ AddSection
    \/ RemoveSection
    \/ UpdateSectionImages
    \/ Rate
    \/ SetMode
    \/ StartOver
    \/ AnalyzeStart
    \/ AnalyzeFails
    \/ AnalyzeNext
    \/ AnalyzeFinish
    \/ FollowUpNext
    \/ FollowUpPrevious
    \/ FollowUpSkip
    \/ FollowUpComplete
    \/ RefineFails
    \/ RefineSucceeds

Spec == Init /\ [][Next]_vars

(***************************************************************************)
(* Specification of the analysis alone: sections are edited and analysed,  *)
(* the oracle answering with any of the entries; nothing is rated by hand  *)
(* and no follow-up question is answered.                                  *)
(***************************************************************************)

AnalysisNext ==
    \/ AddSection
    \/ RemoveSection
    \/ UpdateSectionImages
    \/ SetMode
    \/ StartOver
    \/ AnalyzeStart
    \/ AnalyzeFails
    \/ AnalyzeNextAny
    \/ AnalyzeFinishAny
    \/ FollowUpNext
    \/ FollowUpPrevious
    \/ FollowUpSkip

SpecAnalysis == Init /\ [][AnalysisNext]_vars

(***************************************************************************)
(* Properties of the aggregation of section results                        *)
(***************************************************************************)

\* the section results that give a principle an applicable score above zero
QualifyingResults(id) ==
    { k \in DOMAIN sectionResults :
        /\ id \in DOMAIN sectionResults[k].scores
        /\ sectionResults[k].scores[id].notApplicable = FALSE
        /\ sectionResults[k].scores[id].score > 0 }

\* the principle has a combined score
HasCombined(id) ==
    /\ combinedAiScoresOf(sectionResults) # None
    /\ id \in DOMAIN The(combinedAiScoresOf(sectionResults))

\* the combined score of a principle that has one
Combined(id) == The(combinedAiScoresOf(sectionResults))[id]

\* C1: for the section results of a run and every principle, the combined
\* score exists exactly when some section result has an entry for the
\* principle that is not marked notApplicable and has a score above zero,
\* and its score is then the greatest score of such entries.
C1_CombinedIsTheMaximum ==
    \A id \in Range(principles) :
        /\ HasCombined(id) <=> QualifyingResults(id) # {}
        /\ HasCombined(id) =>
               /\ \E k \in QualifyingResults(id) :
                      Combined(id).score = sectionResults[k].scores[id].score
               /\ \A k \in QualifyingResults(id) :
                      sectionResults[k].scores[id].score <= Combined(id).score

\* two sections were analysed; one principle has qualifying entries with
\* different scores in both, and another has only an entry that does not
\* qualify and so no combined score
C1_Witness ==
    /\ Len(sectionResults) = 2
    /\ \E id \in Range(principles) :
           /\ QualifyingResults(id) = {1, 2}
           /\ sectionResults[1].scores[id].score
                  > sectionResults[2].scores[id].score
           /\ HasCombined(id)
    /\ \E id \in Range(principles) :
           /\ QualifyingResults(id) = {}
           /\ ~HasCombined(id)
           /\ \E k \in DOMAIN sectionResults :
                  /\ id \in DOMAIN sectionResults[k].scores
                  /\ \/ sectionResults[k].scores[id].score > 0
                     \/ ~sectionResults[k].scores[id].notApplicable

\* C2: the section a combined score is attributed to is the first, in the
\* order of the section results, of the sections whose qualifying entry has
\* the greatest score: a later section with the same score does not
\* replace it.
C2_FirstSectionWinsTies ==
    \A id \in Range(principles) :
        HasCombined(id) =>
            \E k \in QualifyingResults(id) :
                /\ Combined(id).contributingSection
                       = sectionResults[k].sectionName
                /\ \A j \in QualifyingResults(id) :
                       /\ sectionResults[j].scores[id].score
                              <= sectionResults[k].scores[id].score
                       /\ j < k =>
                              sectionResults[j].scores[id].score
                                  < sectionResults[k].scores[id].score

\* two sections with different names give a principle the same greatest
\* score, and the combined score names the first
C2_Witness ==
    /\ Len(sectionResults) = 2
    /\ sectionResults[1].sectionName # sectionResults[2].sectionName
    /\ \E id \in Range(principles) :
           /\ QualifyingResults(id) = {1, 2}
           /\ sectionResults[1].scores[id].score
                  = sectionResults[2].scores[id].score
           /\ HasCombined(id)
           /\ Combined(id).contributingSection = sectionResults[1].sectionName

\* the ids of a list of gaps or strengths
IdsOf(list) == { list[k].id : k \in DOMAIN list }

\* C3: after an analysis, a principle without a qualifying entry in any
\* section result is not rated: its rating is null and not 0, it is neither
\* a gap nor a strength, and the number of rated principles, by which the
\* sum of the ratings is divided, counts only the principles that have a
\* qualifying entry.
C3_NoQualifyingEntryIsUnrated ==
    Len(sectionResults) > 0 =>
        /\ \A id \in Range(principles) :
               QualifyingResults(id) = {} =>
                   /\ ratings[id] = NULL
                   /\ resultsOf(ratings) # None =>
                          /\ id \notin IdsOf(The(resultsOf(ratings)).gaps)
                          /\ id \notin IdsOf(The(resultsOf(ratings)).strengths)
        /\ resultsOf(ratings) # None =>
               /\ The(resultsOf(ratings)).totalRated =
                      Cardinality({ id \in Range(principles) :
                                      QualifyingResults(id) # {} })
               /\ The(resultsOf(ratings)).averageCount =
                      The(resultsOf(ratings)).totalRated

\* after an analysis one principle is rated, and another, which has an
\* entry with score 0 or an entry marked notApplicable, is not
C3_Witness ==
    /\ analysis.at = "done"
    /\ Len(sectionResults) > 0
    /\ resultsOf(ratings) # None
    /\ \E id \in Range(principles) :
           /\ QualifyingResults(id) = {}
           /\ ratings[id] = NULL
           /\ \E k \in DOMAIN sectionResults :
                  /\ id \in DOMAIN sectionResults[k].scores
                  /\ sectionResults[k].scores[id] \in
                         { Entry(0, FALSE), Entry(N(4), TRUE) }

(***************************************************************************)
(* Properties of a failing analysis                                        *)
(***************************************************************************)

\* C9: when the request for a section fails, the run is over: its position
\* is the return from the catch block, from which only a new run makes a
\* request, and that for its first section; sectionResults is empty, so
\* that the results of the sections analysed before are dropped; the
\* ratings are as they were; the error is set; isAnalyzing is false.
C9_FailureAbortsTheRun ==
    [][/\ (analysis.at = "awaiting" /\ analysis'.at = "failed") =>
              /\ sectionResults' = <<>>
              /\ ratings' = ratings
              /\ error' # NoError
              /\ isAnalyzing' = FALSE
              /\ analyzingSection' = None
       /\ (analysis.at = "failed" /\ analysis'.at = "awaiting") =>
              /\ analysis'.i = 1
              /\ analysis'.results = <<>>]_vars

\* the request for the second section of a run has failed, after the first
\* section was analysed and a principle was rated by hand
C9_Witness ==
    /\ analysis.at = "failed"
    /\ analysis.i = 2
    /\ ratings # NoRatings
    /\ sectionResults = <<>>
    /\ error # NoError
    /\ ~isAnalyzing

(***************************************************************************)
(* Properties of the whole tool                                            *)
(***************************************************************************)

\* what a summary says of the ratings: every rated principle is a gap or a
\* strength and not both, the gaps are the rated principles with a score of
\* at most 3, the strengths those with a score of at least 4
Partitions(summary) ==
    \A id \in Range(principles) :
        /\ ratings[id] = NULL =>
               id \notin IdsOf(summary.gaps) \cup IdsOf(summary.strengths)
        /\ ratings[id] # NULL =>
               /\ id \in IdsOf(summary.gaps) <=> ratings[id] <= N(3)
               /\ id \in IdsOf(summary.strengths) <=> ratings[id] >= N(4)
               /\ id \in IdsOf(summary.gaps) <=>
                      id \notin IdsOf(summary.strengths)

\* C8: in every state of the tool, every rated principle is in exactly one
\* of the gaps and the strengths, of the component as of a report shared
\* from it: the gaps are the rated principles with a score of at most 3 and
\* the strengths those with a score of at least 4.
C8_GapsAndStrengthsPartition ==
    /\ resultsOf(ratings) # None => Partitions(The(resultsOf(ratings)))
    /\ sharedReportResultsOf(ratings) # None =>
           Partitions(The(sharedReportResultsOf(ratings)))

\* C10: when a refinement succeeds, the originalScore of every record it
\* stores is the score of the combined score the principle of the record
\* had when the request was sent.
C10_OriginalScoreIsTheScoreBefore ==
    [][RefineSucceeds =>
           \A k \in DOMAIN refinedScores'.items :
               LET record == refinedScores'.items[k]
                   before == The(refinement.combinedAiScores)
               IN  /\ record.principleId \in DOMAIN before
                   /\ record.originalScore = before[record.principleId].score
      ]_vars

\* the step of handleFollowUpComplete in which the request has failed: the
\* response is not ok, or the handling of an ok response throws
RefinementFailed ==
    RefineFails \/ (RefineSucceeds /\ ~refinedScores'.isArray)

\* C11: when the refinement request fails (a response that is not ok, or
\* an exception while the response is handled), the follow-up flow ends,
\* the error is recorded, and the ratings and refinedScores are what they
\* were before: refinedScores is never updated without the ratings
C11_FailedRefinementChangesNoScores ==
    [][RefinementFailed =>
           /\ ~showFollowUp'
           /\ ~isRefining'
           /\ error' # NoError
           /\ ratings' = ratings
           /\ refinedScores' = refinedScores
      ]_vars

\* C12: "Skip to Results", on any question of the follow-up flow, ends the
\* flow without a refinement request and leaves the ratings, the section
\* results and refinedScores as they are, so the scores of the analysis
\* stay the final ones
C12_SkipKeepsTheScores ==
    [][FollowUpSkip =>
           /\ ~showFollowUp'
           /\ ~isRefining'
           /\ refinement' = refinement
           /\ refinement.at = "idle"
           /\ ratings' = ratings
           /\ sectionResults' = sectionResults
           /\ refinedScores' = refinedScores
           /\ combinedAiScoresOf(sectionResults')
                  = combinedAiScoresOf(sectionResults)
      ]_vars

\* the follow-up flow of an analysis with two gaps has ended with no
\* refinement stored and no error: the ratings are those of the analysis
C12_Witness ==
    /\ mode = "ai"
    /\ ~showFollowUp
    /\ ~isRefining
    /\ refinement.at = "idle"
    /\ Len(lowScoringPrinciplesOf(sectionResults)) = 2
    /\ refinedScores = Array(<<>>)
    /\ error = NoError
    /\ ratings = newRatingsOf(sectionResults)

\* the principles of the gap set that the refinement in flight was sent
GapSetSent == { refinement.originalScores[k].principleId :
                  k \in DOMAIN refinement.originalScores }

\* C13: a successful refinement stores records and changes ratings only
\* for principles of the gap set shown in the follow-up flow; outside that
\* set no rating changes and no principle becomes rated, whatever the
\* oracle returns
C13_OnlyTheGapSetIsRefined ==
    [][(RefineSucceeds /\ refinedScores'.isArray) =>
           /\ \A k \in DOMAIN refinedScores'.items :
                  refinedScores'.items[k].principleId \in GapSetSent
           /\ \A id \in DOMAIN ratings' \ GapSetSent :
                  /\ id \in DOMAIN ratings
                  /\ ratings'[id] = ratings[id]
      ]_vars

(***************************************************************************)
(* Specification of the missing-flow advisor alone: the present section    *)
(* types are chosen, then the advisor is asked.                            *)
(***************************************************************************)

\* how many section types the argument lists at most, repetitions counted
MaxPresent == 2

RECURSIVE ListsOver(_, _)
\* the lists of at most n elements of S
ListsOver(S, n) ==
    IF n = 0 THEN { <<>> }
    ELSE LET shorter == ListsOver(S, n - 1) IN
         shorter \cup { Append(s, x) : s \in shorter, x \in S }

AdvisorInit ==
    /\ presentTypes \in ListsOver(SectionTypes, MaxPresent)
    /\ recommendations = None
    /\ ClassifierIdle
    /\ FilterIdle
    /\ EndpointIdle
    /\ ClientIdle
    /\ LinkIdle
    /\ StoreIdle
    /\ UpfrontIdle
    /\ FollowUpIdle
    /\ TakeawayIdle

Advise ==
    /\ recommendations = None
    /\ recommendations' = Some(getMissingFlowRecommendations(presentTypes))
    /\ UNCHANGED <<presentTypes, classifierVars, filterVars, endpointVars,
                   clientVars, linkVars, storeVars, upfrontVars, followUpVars,
                   takeawayVars>>

AdvisorNext == Advise

SpecAdvisor == AdvisorInit /\ [][AdvisorNext]_vars

\* where the entry for a section type stands in the table
TablePosition(type) ==
    CHOOSE k \in DOMAIN missingFlowRecommendations :
        missingFlowRecommendations[k].sectionType = type

\* the entries the advisor has to return for the present types
Missing(present) ==
    { rec \in Range(missingFlowRecommendations) :
        /\ rec.sectionType \notin Range(present)
        /\ ~(/\ rec.sectionType = "quiz"
             /\ Range(present) \cap {"pre-quiz", "post-quiz"} # {}) }

\* C14: getMissingFlowRecommendations returns exactly the table entries
\* whose section type is not present, without the quiz entry when pre-quiz
\* or post-quiz is present, ordered by priority high, medium, low and in
\* table order among equal priorities; for {pre-quiz} there is no quiz
\* entry, for the empty set there is
C14_MissingFlowsFilteredAndOrdered ==
    recommendations # None =>
        LET result == The(recommendations)
            Rank(k) == priorityOrder[result[k].priority]
        IN  /\ Range(result) = Missing(presentTypes)
            /\ Len(result) = Cardinality(Missing(presentTypes))
            /\ \A i, j \in DOMAIN result :
                   i < j =>
                       /\ Rank(i) <= Rank(j)
                       /\ Rank(i) = Rank(j) =>
                              TablePosition(result[i].sectionType)
                                  < TablePosition(result[j].sectionType)
            /\ presentTypes = <<"pre-quiz">> =>
                   \A k \in DOMAIN result : result[k].sectionType # "quiz"
            /\ presentTypes = <<>> =>
                   \E k \in DOMAIN result : result[k].sectionType = "quiz"

\* the advisor was asked with a quiz-like phase present and the quiz type
\* itself absent, and has answered without the quiz entry
C14_Witness ==
    /\ recommendations # None
    /\ "pre-quiz" \in Range(presentTypes)
    /\ "quiz" \notin Range(presentTypes)
    /\ Len(The(recommendations)) > 1

(***************************************************************************)
(* Specification of the legacy share link alone: a component holds some    *)
(* ratings, its link is copied, and the page is opened with the link.      *)
(***************************************************************************)

\* the ratings a component may hold: null, the scores 1 to 5, and 3.5,
\* which an analysis may give
RatingValues == {NULL, N(3) + 1} \cup { N(k) : k \in 1..5 }

LinkInit ==
    /\ mode = "manual"
    /\ ratings \in [Range(principles) -> RatingValues]
    /\ sections = <<>>
    /\ sectionResults = <<>>
    /\ isAnalyzing = FALSE
    /\ analyzingSection = None
    /\ error = NoError
    /\ showFollowUp = FALSE
    /\ isRefining = FALSE
    /\ refinedScores = Array(<<>>)
    /\ currentIndex = 0
    /\ analysis = Analysis("idle", <<>>, 0, <<>>)
    /\ refinement = Refinement("idle", NoRatings, None, <<>>)
    /\ LinkIdle
    /\ ClassifierIdle
    /\ FilterIdle
    /\ EndpointIdle
    /\ AdvisorIdle
    /\ StoreIdle
    /\ UpfrontIdle
    /\ FollowUpIdle
    /\ TakeawayIdle

\* shareLegacyUrl: the link with the scores is copied
ShareLegacyUrl ==
    /\ link = None
    /\ link' = Some(legacyScores(ratings))
    /\ UNCHANGED <<opened, classifierVars, filterVars, endpointVars,
                   clientVars, advisorVars, storeVars, upfrontVars,
                   followUpVars, takeawayVars>>

\* the page is opened with the link: the component is mounted and reads
\* the parameter r, which leaves its ratings null when r is empty
OpenLink ==
    /\ link # None
    /\ opened = None
    /\ opened' = Some(IF The(link) = <<>> THEN NoRatings
                      ELSE ratingsFromLink(The(link)))
    /\ UNCHANGED <<link, classifierVars, filterVars, endpointVars,
                   clientVars, advisorVars, storeVars, upfrontVars,
                   followUpVars, takeawayVars>>

LinkNext == ShareLegacyUrl \/ OpenLink

SpecLink == LinkInit /\ [][LinkNext]_vars

\* the ratings are null or whole scores from 1 to 5
WholeScores(r) ==
    \A id \in DOMAIN r : r[id] = NULL \/ \E k \in 1..5 : r[id] = N(k)

\* C15: for ratings that are null or 1 to 5, the legacy link holds the
\* scores in catalogue order, joined by commas, null written as 0, and
\* opening the link gives the same ratings back, 0 read as null and never
\* as a score of zero
C15_LegacyLinkRoundTrip ==
    /\ (link # None /\ WholeScores(ratings)) =>
           /\ Len(split(The(link), ",")) = Len(principles)
           /\ \A k \in DOMAIN principles :
                  split(The(link), ",")[k] =
                      IF ratings[principles[k]] = NULL THEN <<"0">>
                      ELSE <<Digits[(ratings[principles[k]] \div 2) + 1]>>
    /\ (opened # None /\ WholeScores(ratings)) =>
           /\ The(opened) = ratings
           /\ \A id \in DOMAIN The(opened) : The(opened)[id] # 0

\* a link for ratings with a null and a score has been opened
C15_Witness ==
    /\ opened # None
    /\ WholeScores(ratings)
    /\ \E id \in DOMAIN ratings : ratings[id] = NULL
    /\ \E id \in DOMAIN ratings : ratings[id] = N(4)
    /\ "0" \in Range(The(link))

(***************************************************************************)
(* Properties of the analyze endpoint: validation and errors               *)
(***************************************************************************)

\* C16: a request whose images are absent, no list, empty, or more than
\* MAX_IMAGES_PER_SECTION is answered with an error and no oracle call is
\* made for it; the oracle is only ever sent all the images of a request
C16_BadImageListsAreRejected ==
    handled # None =>
        /\ (\/ ~request.images.isArray
            \/ request.images.length = 0
            \/ request.images.length > MAX_IMAGES_PER_SECTION) =>
               /\ The(handled).response.status # 200
               /\ The(handled).response.error # ""
               /\ The(handled).prompt = None
               /\ The(handled).imageContent = None
        /\ The(handled).imageContent # None =>
               The(The(handled).imageContent) = request.images.length

\* a request with one image more than the limit was answered with status
\* 400, the API key being configured
C16_Witness ==
    /\ handled # None
    /\ apiKey
    /\ request.images.isArray
    /\ request.images.length = MAX_IMAGES_PER_SECTION + 1
    /\ The(handled).response.status = 400
    /\ The(handled).prompt = None

\* the oracle call of the handled request gave no scores: it threw, its
\* message had no text, the text held no JSON object, or the object had no
\* scores key
OracleGaveNoScores ==
    LET outcome == The(oracleOutcome) IN
    \/ outcome.throws
    \/ ~outcome.hasText
    \/ jsonMatch(outcome.text) = None
    \/ parseJson(The(jsonMatch(outcome.text))) = None
    \/ ~The(parseJson(The(jsonMatch(outcome.text)))).hasScores

\* C17: the analyze endpoint answers with an error whenever the oracle
\* call throws, its text holds no JSON object, or the parsed JSON has no
\* scores key, for every resolved section type, overall included
C17_NoScoresIsAnError ==
    (handled # None /\ The(handled).prompt # None /\ OracleGaveNoScores) =>
        The(handled).response.status # 200

\* the first top-level brace-balanced block of a reply text is an object
\* with scores: the text starts with prose or with nothing, then the
\* object follows
StartsWithScores(text) ==
    \E i \in DOMAIN text :
        /\ text[i].t = "object"
        /\ text[i].value.hasScores
        /\ \A j \in 1..(i - 1) : text[j] = Prose

\* the object of the first top-level brace-balanced block of a text
FirstObject(text) ==
    text[CHOOSE i \in DOMAIN text :
             text[i].t = "object" /\ \A j \in 1..(i - 1) : text[j] = Prose]
        .value

\* C18: when the oracle's reply holds a balanced block with the scores
\* object, followed by any further text, braces included, the analysis
\* succeeds with that object: the first top-level brace-balanced part of
\* the reply is what is parsed
C18_FirstBalancedBlockIsParsed ==
    (/\ handled # None
     /\ The(handled).prompt # None
     /\ ~The(oracleOutcome).throws
     /\ The(oracleOutcome).hasText
     /\ StartsWithScores(The(oracleOutcome).text)) =>
        /\ The(handled).response.status = 200
        /\ The(handled).response.result =
               Object(TRUE,
                      markNotApplicable(
                          FirstObject(The(oracleOutcome).text).scores,
                          The(handled).resolvedSectionType))

\* C19: when the analysis of a section fails, the error shown names that
\* section, whatever made the analyze call fail
C19_ErrorNamesTheSection ==
    [][AnalyzeFails =>
           Contains(error', analysis.sectionsWithImages[analysis.i].name)
      ]_vars

(***************************************************************************)
(* Specification of the reports endpoint alone: reports are posted and     *)
(* fetched in any order.                                                   *)
(***************************************************************************)

\* how many ids nanoid gives
MaxReportIds == 2

\* ids as nanoid(10) gives them
NanoidPool == <<"V1StGXR8_Z", "b7Kq0pLm2x", "Zt4_ynW9cA">>

ReportIds == { NanoidPool[k] : k \in 1..MaxReportIds }

\* the reports posted: with and without section results and takeaways
ReportChoices ==
    LET rated == [id \in Range(principles) |->
                     IF id = principles[1] THEN N(3) ELSE NULL]
        one == <<SectionResult(ReviewSummary, <<>>)>>
    IN  { Report(N(3), rated, None, <<>>),
          Report(N(3), rated, Some(one), <<"takeaway">>),
          Report(N(4), NoRatings, None, <<"takeaway">>),
          Report(N(4), rated, Some(one), <<>>) }

StoreInit ==
    /\ supabase \in BOOLEAN
    /\ audit_reports = NoReports
    /\ exchange = None
    /\ ClassifierIdle
    /\ FilterIdle
    /\ EndpointIdle
    /\ ClientIdle
    /\ AdvisorIdle
    /\ LinkIdle
    /\ UpfrontIdle
    /\ FollowUpIdle
    /\ TakeawayIdle

\* a POST request is handled
HandleReportPost ==
    /\ \E report \in ReportChoices, id \in ReportIds :
           LET done == reportsPOST(supabase, audit_reports, report, id) IN
           /\ audit_reports' = done.table
           /\ exchange' = Some([method |-> "POST", report |-> report,
                                response |-> done.response])
    /\ UNCHANGED <<supabase, classifierVars, filterVars, endpointVars,
                   clientVars, advisorVars, linkVars, upfrontVars,
                   followUpVars, takeawayVars>>

\* a GET request is handled
HandleReportGet ==
    /\ \E id \in { Some(k) : k \in ReportIds } \cup { None } :
           LET done == reportsGET(supabase, audit_reports, id) IN
           /\ audit_reports' = done.table
           /\ exchange' = Some([method |-> "GET", id |-> id,
                                response |-> done.response])
    /\ UNCHANGED <<supabase, classifierVars, filterVars, endpointVars,
                   clientVars, advisorVars, linkVars, upfrontVars,
                   followUpVars, takeawayVars>>

StoreNext == HandleReportPost \/ HandleReportGet

SpecStore == StoreInit /\ [][StoreNext]_vars

\* what a response says of a row: the report that was posted
Returns(response, row) ==
    /\ response.status = 200
    /\ response.id = row.id
    /\ response.overallScore = row.overall_score
    /\ response.ratings = row.ratings
    /\ response.sectionResults = row.section_results
    /\ response.keyTakeaways = row.key_takeaways

MaxQuestions == 2

\* the ids of the questions that may be relevant
QuestionIds == { upfrontQuestions[k].id : k \in 1..MaxQuestions }

\* the answers a user leaves for a question: no option, its first or its
\* last, with no free text, a blank one, or some
AnswersTo(k) ==
    { UpfrontAnswer(selected, text) :
        selected \in {"", upfrontQuestions[k].options[1],
                      upfrontQuestions[k].options[5]},
        text \in { <<>>, <<" ">>, <<"c">> } }

\* getRelevantQuestions gives the questions in the order of the catalogue,
\* and every set of them is relevant for some section names
UpfrontInit ==
    /\ \E relevant \in (SUBSET (1..MaxQuestions)) \ {{}} :
       \E answerOf \in [relevant -> UNION { AnswersTo(k) : k \in relevant }] :
           /\ \A k \in relevant : answerOf[k] \in AnswersTo(k)
           /\ modalAnswers =
                  LET positions == SelectSeq([k \in 1..MaxQuestions |-> k],
                                             LAMBDA k : k \in relevant)
                  IN  [i \in DOMAIN positions |->
                          AnswerEntry(upfrontQuestions[positions[i]].id,
                                      answerOf[positions[i]])]
    /\ filteredAnswers = None
    /\ contextSection = None
    /\ ClassifierIdle
    /\ FilterIdle
    /\ EndpointIdle
    /\ ClientIdle
    /\ AdvisorIdle
    /\ LinkIdle
    /\ StoreIdle
    /\ FollowUpIdle
    /\ TakeawayIdle

\* "Continue" of the modal: handleSubmit
SubmitUpfront ==
    /\ filteredAnswers = None
    /\ filteredAnswers' = Some(handleSubmit(modalAnswers))
    /\ UNCHANGED <<modalAnswers, contextSection, classifierVars, filterVars,
                   endpointVars, clientVars, advisorVars, linkVars,
                   storeVars, followUpVars, takeawayVars>>

\* the prompt of a section is built with the submitted answers
BuildUpfrontContext ==
    /\ filteredAnswers # None
    /\ contextSection = None
    /\ contextSection' = Some(buildUpfrontContextSection(The(filteredAnswers)))
    /\ UNCHANGED <<modalAnswers, filteredAnswers, classifierVars, filterVars,
                   endpointVars, clientVars, advisorVars, linkVars,
                   storeVars, followUpVars, takeawayVars>>

UpfrontNext == SubmitUpfront \/ BuildUpfrontContext

SpecUpfront == UpfrontInit /\ [][UpfrontNext]_vars

\* the user answered the question of an entry: an option is selected or
\* the free text is not blank
Answered(entry) ==
    entry.answer.selectedOption # "" \/ trim(entry.answer.freeText) # <<>>

\* the hints of a block for a question
HintsOn(section, id) ==
    { k \in DOMAIN section :
        section[k].kind = "hint" /\ section[k].question = id }

\* C21: the upfront-context block has a scoring hint, naming the affected
\* principle ids, for each question the user answered (an option selected
\* or free text that is not blank), and nothing for a question the user
\* did not answer
C21_AnsweredQuestionsBecomeHints ==
    contextSection # None =>
        \A i \in DOMAIN modalAnswers :
            LET entry == modalAnswers[i]
                hints == HintsOn(The(contextSection), entry.id)
            IN  IF Answered(entry)
                THEN /\ Cardinality(hints) = 1
                     /\ \A k \in hints :
                            \E q \in DOMAIN upfrontQuestions :
                                /\ upfrontQuestions[q].id = entry.id
                                /\ The(contextSection)[k].affects
                                       = upfrontQuestions[q].principleIds
                ELSE hints = {}


(***************************************************************************)
(* C22: the requests of a run, one at a time                               *)
(***************************************************************************)

\* an analyze request is outstanding
RequestOutstanding == analysis.at = "awaiting"

\* an analyze request is issued by the step
RequestIssued == analysis'.at = "awaiting" /\ analysis' # analysis

\* C22: during an analysis run at most one analyze request is outstanding:
\* a run starts only when no run is in flight (isAnalyzing, which disables
\* the button, holds as long as a request is outstanding); the requests
\* go through the sections with images in the order of the section list;
\* the request for the next section is issued by the step that receives
\* the response for the section before it; and the position in the list
\* only grows, so no section is requested twice in a run.
C22_OneRequestAtATime ==
    [][ /\ RequestOutstanding => isAnalyzing
        /\ RequestIssued =>
               /\ analysis'.i \in DOMAIN analysis'.sectionsWithImages
               /\ analysis'.sectionsWithImages[analysis'.i].images > 0
               /\ IF RequestOutstanding
                  THEN /\ analysis'.sectionsWithImages
                              = analysis.sectionsWithImages
                       /\ analysis'.i = analysis.i + 1
                       /\ Len(analysis'.results) = Len(analysis.results) + 1
                  ELSE /\ ~isAnalyzing
                       /\ analysis'.i = 1
                       /\ analysis'.results = <<>>
                       /\ analysis'.sectionsWithImages
                              = SelectSeq(sections,
                                          LAMBDA s : s.images > 0)
      ]_vars

\* the request for the second section is outstanding, the response for the
\* first received
C22_Witness ==
    /\ RequestOutstanding
    /\ analysis.i = 2
    /\ Len(analysis.results) = 1


(***************************************************************************)
(* C23: a reset with a request in flight                                   *)
(***************************************************************************)

\* what resetAudit leaves behind
AuditIsReset ==
    /\ ratings = NoRatings
    /\ sectionResults = <<>>
    /\ refinedScores = Array(<<>>)
    /\ ~showFollowUp

\* a request that was started before the last reset is in flight.  The
\* sections cannot be edited during a run and a run has a section with
\* images, so only a reset empties them under an analyze request; the
\* follow-up flow is open when a refinement starts and the refinement
\* closes it only when it ends, so only a reset closes it under a refine
\* request.
StartedBeforeReset ==
    \/ analysis.at = "awaiting" /\ sections = <<>>
    \/ refinement.at = "awaiting" /\ ~showFollowUp

\* C23: after resetAudit the ratings stay all null, sectionResults and
\* refinedScores stay empty and the follow-up flow stays closed until the
\* user rates a principle or starts a new analysis, also when a request
\* started before the reset completes after it: with such a request in
\* flight, a step out of the reset state is a rating by the user.
C23_ResetOutlivesRequestsInFlight ==
    [][ (StartedBeforeReset /\ AuditIsReset) => (AuditIsReset' \/ Rate)
      ]_vars


(***************************************************************************)
(* C24: the principles the follow-up flow presents                         *)
(***************************************************************************)

\* the ids of a sequence of entries
idsOf(entries) == [i \in DOMAIN entries |-> entries[i].id]

\* the place of a principle in the catalogue
CataloguePlace(id) == CHOOSE k \in DOMAIN principles : principles[k] = id

\* C24: when the follow-up flow is entered after an analysis, the
\* principles it presents are the gaps of the results, in the same order:
\* the rated principles with a score of at most 3, ascending by score,
\* equal scores in the order of the catalogue; the one at currentIndex is
\* presented, and the flow starts with the first.
C24_FollowUpPresentsTheGaps ==
    [][ /\ FollowUpShown' =>
               LET low  == lowScoringPrinciplesOf(sectionResults')
                   gaps == The(resultsOf(ratings')).gaps
               IN  /\ resultsOf(ratings') # None
                   /\ idsOf(low) = idsOf(gaps)
                   /\ Range(idsOf(low)) =
                          { id \in Range(principles) :
                              ratings'[id] # NULL /\ ratings'[id] <= N(3) }
                   /\ \A i, j \in DOMAIN low :
                          i < j =>
                              \/ low[i].score < low[j].score
                              \/ /\ low[i].score = low[j].score
                                 /\ CataloguePlace(low[i].id)
                                        < CataloguePlace(low[j].id)
                   /\ currentIndex' + 1 \in DOMAIN low
        /\ (~FollowUpShown /\ FollowUpShown') => currentIndex' = 0
      ]_vars

\* the flow was entered with two gaps, the later of the catalogue first, and
\* presents the second
C24_Witness ==
    /\ FollowUpShown
    /\ LET low == lowScoringPrinciplesOf(sectionResults) IN
       /\ Len(low) = 2
       /\ low[1].score < low[2].score
       /\ CataloguePlace(low[1].id) > CataloguePlace(low[2].id)
    /\ currentIndex = 1


(***************************************************************************)
(* The FollowUpQuestions component (FollowUpQuestions.tsx), on its own:    *)
(* its props, its state and its handlers.  "Skip to Results" only calls    *)
(* the onSkip prop, handleFollowUpSkip of AuditTool, and is with it.       *)
(***************************************************************************)

\* the state of AuditTool, which the component does not touch
auditToolVars ==
    <<mode, ratings, sections, sectionResults, isAnalyzing, analyzingSection,
      error, showFollowUp, isRefining, refinedScores, analysis, refinement>>

\* one FollowUpAnswer
FollowUpAnswer(principleId, selectedOptions, freeText) ==
    [principleId |-> principleId, selectedOptions |-> selectedOptions,
     freeText |-> freeText]

\* followUpQuestions[id].options, the first two of each list, by a word of
\* theirs
followUpOptions(id) ==
    IF id = "spaced-repetition" THEN <<"reminders", "reappears">>
    ELSE IF id = "retrieval-practice" THEN <<"recall", "quizzes">>
    ELSE <<>>

\* the initial answers: one empty answer per principle
initialAnswers(low) ==
    [i \in DOMAIN low |-> FollowUpAnswer(low[i].id, <<>>, <<>>)]

\* isLast of the component
isLastOf(index, low) == index = Len(low) - 1

\* prev.map((a, i) => (i === currentIndex ? { ...a, ...update } : a))
updateAnswer(prev, index, update) ==
    [i \in DOMAIN prev |->
        IF i - 1 = index
        THEN [f \in DOMAIN prev[i] |->
                 IF f \in DOMAIN update THEN update[f] ELSE prev[i][f]]
        ELSE prev[i]]

\* the updated selection of toggleOption
toggleOption(current, option) ==
    IF \E k \in DOMAIN current : current[k] = option
    THEN SelectSeq(current, LAMBDA o : o # option)
    ELSE Append(current, option)

\* Math.max(0, i - 1)
previousIndex(i) == IF i - 1 > 0 THEN i - 1 ELSE 0

\* the texts the user types into the free-text field
FreeTexts == { <<>>, <<"c">> }

\* the lists the component is given: lowScoringPrinciples of one section
\* result that scores every principle
LowScoringChoices ==
    { lowScoringPrinciplesOf(<<SectionResult(ReviewSummary, scores)>>) :
        scores \in [Range(principles) ->
                       { Entry(N(2), FALSE), Entry(N(3), FALSE),
                         Entry(N(4), FALSE) }] } \ { <<>> }

\* the component is mounted
FollowUpInit ==
    /\ lowScoringPrinciples \in LowScoringChoices
    /\ answers = initialAnswers(lowScoringPrinciples)
    /\ onComplete = None
    /\ leftVia = [i \in DOMAIN lowScoringPrinciples |-> ""]
    /\ ClassifierIdle
    /\ FilterIdle
    /\ EndpointIdle
    /\ ClientIdle
    /\ AdvisorIdle
    /\ LinkIdle
    /\ StoreIdle
    /\ UpfrontIdle
    /\ TakeawayIdle

\* the questionnaire is on the screen
QuestionShown == lowScoringPrinciples # <<>> /\ onComplete = None

\* a checkbox of the current question is clicked
ToggleOption ==
    /\ QuestionShown
    /\ \E option \in Range(followUpOptions(
                               lowScoringPrinciples[currentIndex + 1].id)) :
           answers' = updateAnswer(answers, currentIndex,
                          [selectedOptions |->
                              toggleOption(
                                  answers[currentIndex + 1].selectedOptions,
                                  option)])
    /\ UNCHANGED <<currentIndex, lowScoringPrinciples, onComplete, leftVia>>
    /\ UNCHANGED auditToolVars
    /\ UNCHANGED <<classifierVars, filterVars, endpointVars, advisorVars,
                   linkVars, storeVars, upfrontVars, takeawayVars>>

\* the free-text field of the current question is edited
TypeFreeText ==
    /\ QuestionShown
    /\ \E text \in FreeTexts :
           answers' = updateAnswer(answers, currentIndex,
                                   [freeText |-> text])
    /\ UNCHANGED <<currentIndex, lowScoringPrinciples, onComplete, leftVia>>
    /\ UNCHANGED auditToolVars
    /\ UNCHANGED <<classifierVars, filterVars, endpointVars, advisorVars,
                   linkVars, storeVars, upfrontVars, takeawayVars>>

\* a slip: on the last question the index advances as on the others
HandleNext_AlwaysAdvances ==
    /\ QuestionShown
    /\ currentIndex' = currentIndex + 1
    /\ leftVia' = [leftVia EXCEPT ![currentIndex + 1] = "next"]
    /\ UNCHANGED <<lowScoringPrinciples, answers, onComplete>>
    /\ UNCHANGED auditToolVars
    /\ UNCHANGED <<classifierVars, filterVars, endpointVars, advisorVars,
                   linkVars, storeVars, upfrontVars, takeawayVars>>

\* handleNext: the "Next" button, "Complete" on the last question
HandleNext ==
    /\ QuestionShown
    /\ IF isLastOf(currentIndex, lowScoringPrinciples)
       THEN /\ onComplete' = Some(answers)
            /\ currentIndex' = currentIndex
       ELSE /\ currentIndex' = currentIndex + 1
            /\ onComplete' = onComplete
    /\ leftVia' = [leftVia EXCEPT ![currentIndex + 1] = "next"]
    /\ UNCHANGED <<lowScoringPrinciples, answers>>
    /\ UNCHANGED auditToolVars
    /\ UNCHANGED <<classifierVars, filterVars, endpointVars, advisorVars,
                   linkVars, storeVars, upfrontVars, takeawayVars>>

\* a slip: going back empties the answer of the question left
HandlePrevious_ClearsAnswer ==
    /\ QuestionShown
    /\ currentIndex # 0
    /\ currentIndex' = previousIndex(currentIndex)
    /\ answers' = updateAnswer(answers, currentIndex,
                               [selectedOptions |-> <<>>, freeText |-> <<>>])
    /\ leftVia' = [leftVia EXCEPT ![currentIndex + 1] = "previous"]
    /\ UNCHANGED <<lowScoringPrinciples, onComplete>>
    /\ UNCHANGED auditToolVars
    /\ UNCHANGED <<classifierVars, filterVars, endpointVars, advisorVars,
                   linkVars, storeVars, upfrontVars, takeawayVars>>

\* handlePrevious: the "Previous" button, disabled on the first question
HandlePrevious ==
    /\ QuestionShown
    /\ currentIndex # 0
    /\ currentIndex' = previousIndex(currentIndex)
    /\ leftVia' = [leftVia EXCEPT ![currentIndex + 1] = "previous"]
    /\ UNCHANGED <<lowScoringPrinciples, answers, onComplete>>
    /\ UNCHANGED auditToolVars
    /\ UNCHANGED <<classifierVars, filterVars, endpointVars, advisorVars,
                   linkVars, storeVars, upfrontVars, takeawayVars>>

\* handleSkipQuestion: the "Skip this question" button
HandleSkipQuestion ==
    /\ QuestionShown
    /\ IF isLastOf(currentIndex, lowScoringPrinciples)
       THEN /\ onComplete' = Some(answers)
            /\ currentIndex' = currentIndex
       ELSE /\ currentIndex' = currentIndex + 1
            /\ onComplete' = onComplete
    /\ leftVia' = [leftVia EXCEPT ![currentIndex + 1] = "skip"]
    /\ UNCHANGED <<lowScoringPrinciples, answers>>
    /\ UNCHANGED auditToolVars
    /\ UNCHANGED <<classifierVars, filterVars, endpointVars, advisorVars,
                   linkVars, storeVars, upfrontVars, takeawayVars>>

FollowUpQuestionsNext ==
    \/ ToggleOption
    \/ TypeFreeText
    \/ HandleNext
    \/ HandlePrevious
    \/ HandleSkipQuestion

SpecFollowUp == FollowUpInit /\ [][FollowUpQuestionsNext]_vars

\* C25: "Skip this question" records no selection for the principle
\* skipped: in the answers given to onComplete, a principle whose question
\* the user last left by "Skip this question" has no selected options.
C25_SkippedQuestionsHaveNoSelection ==
    onComplete # None =>
        \A i \in DOMAIN leftVia :
            leftVia[i] = "skip" => The(onComplete)[i].selectedOptions = <<>>


\* C26: "Previous" is non-destructive: a step back changes currentIndex
\* only, to max(0, currentIndex - 1); and no step that moves between the
\* questions or completes the flow changes an answer, so each answer is
\* what the user last entered for it: an answer changes only by an edit of
\* the question shown, and only the answer of that question.
C26_PreviousKeepsTheAnswers ==
    [][ /\ currentIndex' < currentIndex =>
               /\ currentIndex' = previousIndex(currentIndex)
               /\ answers' = answers
               /\ onComplete' = onComplete
               /\ lowScoringPrinciples' = lowScoringPrinciples
        /\ (currentIndex' # currentIndex \/ onComplete' # onComplete
                \/ leftVia' # leftVia) =>
               answers' = answers
        /\ answers' # answers =>
               /\ DOMAIN answers' = DOMAIN answers
               /\ \A i \in DOMAIN answers :
                      i # currentIndex + 1 => answers'[i] = answers[i]
      ]_vars

\* the user went back to the first question, whose answer has a selection
\* and a text, from the second, whose answer has a selection
C26_Witness ==
    /\ QuestionShown
    /\ Len(answers) = 2
    /\ currentIndex = 0
    /\ leftVia[2] = "previous"
    /\ answers[1].selectedOptions # <<>>
    /\ answers[1].freeText # <<>>
    /\ answers[2].selectedOptions # <<>>

\* C29: while the flow over n >= 1 gap principles is not completed,
\* currentIndex is within 0..n-1 and answers has n entries, the i-th with
\* the id of the i-th gap principle; "Next" or "Skip this question" on the
\* last question completes the flow with the answers and does not advance.
C29_IndexAndAnswersStayAligned ==
    [][ LET n == Len(lowScoringPrinciples') IN
        /\ (n >= 1 /\ onComplete' = None) =>
               /\ currentIndex' \in 0..(n - 1)
               /\ Len(answers') = n
               /\ \A i \in 1..n :
                      answers'[i].principleId = lowScoringPrinciples'[i].id
        /\ (/\ QuestionShown
            /\ isLastOf(currentIndex, lowScoringPrinciples)
            /\ leftVia' # leftVia
            /\ leftVia'[currentIndex + 1] \in {"next", "skip"}) =>
               /\ onComplete' = Some(answers)
               /\ currentIndex' = currentIndex
      ]_vars

\* the flow over two principles was completed from the last question
\* after a step back
C29_Witness ==
    /\ onComplete # None
    /\ Len(lowScoringPrinciples) = 2
    /\ currentIndex = 1
    /\ leftVia[1] \in {"next", "skip"}
    /\ leftVia[2] \in {"next", "skip"}
    /\ Len(The(onComplete)) = 2


(***************************************************************************)
(* The key takeaways of AuditTool: results.gaps and keyTakeaways, over a   *)
(* catalogue whose principles have a category                              *)
(***************************************************************************)

\* the length of the catalogue
MaxCatalogue == 3

\* the categories of content.config.ts that the catalogue uses
Categories == { "Memory & Retention", "Practice & Skill Building" }

\* the scores of the rating cards that are looked at
TakeawayScores == { N(1), N(2), N(3), N(4) }

\* rated of results, with the category that the gaps are given
ratedWithCategory(cat, r) ==
    LET entries == [i \in DOMAIN cat |->
                       [id |-> cat[i].id, score |-> r[cat[i].id],
                        category |-> cat[i].category]]
    IN  SelectSeq(entries, LAMBDA e : e.score # NULL)

RECURSIVE categoryAvgOf(_, _)
\* categoryAvg: the scores of the gaps by category, the categories in the
\* order in which the loop over the gaps meets them
categoryAvgOf(gaps, categoryAvg) ==
    IF gaps = <<>> THEN categoryAvg
    ELSE LET gap == Head(gaps)
             met == \E k \in DOMAIN categoryAvg :
                        categoryAvg[k].category = gap.category
         IN  categoryAvgOf(Tail(gaps),
                 IF met
                 THEN [k \in DOMAIN categoryAvg |->
                          IF categoryAvg[k].category = gap.category
                          THEN [categoryAvg[k] EXCEPT
                                   !.scores = Append(@, gap.score)]
                          ELSE categoryAvg[k]]
                 ELSE Append(categoryAvg,
                             [category |-> gap.category,
                              scores |-> <<gap.score>>]))

\* a.avg - b.avg < 0, the averages kept as sum and count
AvgLess(a, b) == a.sum * b.count < b.sum * a.count

RECURSIVE insertByAvg(_, _)
\* x put into the sequence s, ascending by avg, after the elements that
\* compare equal to it
insertByAvg(s, x) ==
    IF s = <<>> THEN <<x>>
    ELSE IF AvgLess(x, Head(s)) THEN <<x>> \o s
    ELSE <<Head(s)>> \o insertByAvg(Tail(s), x)

RECURSIVE sortByAvg(_)
\* sort((a, b) => a.avg - b.avg)
sortByAvg(s) ==
    IF s = <<>> THEN <<>>
    ELSE insertByAvg(sortByAvg(SubSeq(s, 1, Len(s) - 1)), s[Len(s)])

\* a slip: the categories are sorted by the number of their gaps
keyTakeawaysOf_MostGaps(gaps) ==
    IF Len(gaps) = 0 THEN None
    ELSE LET groups == categoryAvgOf(gaps, <<>>)
             byCount == [k \in DOMAIN groups |->
                            [category |-> groups[k].category,
                             sum |-> 0 - Len(groups[k].scores),
                             count |-> 1]]
         IN  Some([priorityCategory |-> sortByAvg(byCount)[1].category])

\* keyTakeaways, for the gaps of results (<<>> when results is null): None
\* (null), or Some(takeaways), of which the category of priorityCategory
\* is kept
keyTakeawaysOf(gaps) ==
    IF Len(gaps) = 0 THEN None
    ELSE LET groups == categoryAvgOf(gaps, <<>>)
             averaged == [k \in DOMAIN groups |->
                             [category |-> groups[k].category,
                              sum |-> Sum(groups[k].scores),
                              count |-> Len(groups[k].scores)]]
         IN  Some([priorityCategory |-> sortByAvg(averaged)[1].category])

\* the tool is mounted with a catalogue, nothing rated
TakeawayInit ==
    /\ catalogue \in
           { [i \in 1..MaxCatalogue |->
                 [id |-> auditDataIds[i], category |-> categoryOf[i]]] :
               categoryOf \in [1..MaxCatalogue -> Categories] }
    /\ takeawayRatings =
           [id \in { auditDataIds[i] : i \in 1..MaxCatalogue } |-> NULL]
    /\ keyTakeaways = NotYet
    /\ ClassifierIdle
    /\ FilterIdle
    /\ EndpointIdle
    /\ ClientIdle
    /\ AdvisorIdle
    /\ LinkIdle
    /\ StoreIdle
    /\ UpfrontIdle
    /\ FollowUpIdle

\* results and keyTakeaways are computed
ComputeTakeaways ==
    /\ keyTakeaways = NotYet
    /\ keyTakeaways' =
           keyTakeawaysOf(gapsOf(ratedWithCategory(catalogue,
                                                   takeawayRatings)))
    /\ UNCHANGED <<catalogue, takeawayRatings>>
    /\ UNCHANGED <<classifierVars, filterVars, endpointVars, clientVars,
                   advisorVars, linkVars, storeVars, upfrontVars,
                   followUpVars>>

\* handleRating, from a rating card: the memo is computed anew
RateForTakeaways ==
    /\ keyTakeaways # NotYet
    /\ \E i \in 1..MaxCatalogue, score \in TakeawayScores :
           takeawayRatings' =
               [takeawayRatings EXCEPT ![auditDataIds[i]] = score]
    /\ keyTakeaways' =
           keyTakeawaysOf(gapsOf(ratedWithCategory(catalogue,
                                                   takeawayRatings')))
    /\ UNCHANGED catalogue
    /\ UNCHANGED <<classifierVars, filterVars, endpointVars, clientVars,
                   advisorVars, linkVars, storeVars, upfrontVars,
                   followUpVars>>

TakeawayNext ==
    \/ ComputeTakeaways
    \/ RateForTakeaways

SpecTakeaways == TakeawayInit /\ [][TakeawayNext]_vars

\* the gap principles: the rated principles with a score of at most 3
GapPlaces ==
    { i \in DOMAIN catalogue :
        /\ takeawayRatings[catalogue[i].id] # NULL
        /\ takeawayRatings[catalogue[i].id] <= N(3) }

\* the gap principles of a category
GapPlacesOf(c) == { i \in GapPlaces : catalogue[i].category = c }

RECURSIVE SumOver(_)
\* the sum of the scores of a set of principles
SumOver(places) ==
    IF places = {} THEN 0
    ELSE LET i == CHOOSE j \in places : TRUE
         IN  takeawayRatings[catalogue[i].id] + SumOver(places \ {i})

\* the mean of category c is less than the mean of category d
MeanLess(c, d) ==
    SumOver(GapPlacesOf(c)) * Cardinality(GapPlacesOf(d))
        < SumOver(GapPlacesOf(d)) * Cardinality(GapPlacesOf(c))

\* principle i comes before principle j in gaps: lower score first, equal
\* scores in the order of the catalogue
GapBefore(i, j) ==
    \/ takeawayRatings[catalogue[i].id] < takeawayRatings[catalogue[j].id]
    \/ /\ takeawayRatings[catalogue[i].id] = takeawayRatings[catalogue[j].id]
       /\ i < j

\* category c is met before category d while iterating gaps
MetBefore(c, d) ==
    \E i \in GapPlacesOf(c) : \A j \in GapPlacesOf(d) : GapBefore(i, j)

\* C27: key takeaways are produced iff gaps is non-empty, and their
\* priority category is the category whose gap principles have the lowest
\* mean score; of several categories with the lowest mean, the one met
\* first while iterating gaps.
C27_PriorityIsTheLowestMean ==
    keyTakeaways # NotYet =>
        /\ keyTakeaways # None <=> GapPlaces # {}
        /\ keyTakeaways # None =>
               LET c == The(keyTakeaways).priorityCategory IN
               /\ GapPlacesOf(c) # {}
               /\ \A d \in Categories \ {c} :
                      GapPlacesOf(d) # {} =>
                          \/ MeanLess(c, d)
                          \/ ~MeanLess(d, c) /\ MetBefore(c, d)

\* two categories share the lowest mean, and the one chosen is not the
\* category of the first principle of the catalogue
C27_Witness ==
    /\ keyTakeaways # NotYet
    /\ keyTakeaways # None
    /\ LET c == The(keyTakeaways).priorityCategory IN
       \E d \in Categories \ {c} :
           /\ GapPlacesOf(d) # {}
           /\ ~MeanLess(c, d)
           /\ ~MeanLess(d, c)
           /\ catalogue[1].category = d
           /\ 1 \in GapPlaces


\* an analysis run ends with success in the step
RunSucceeds ==
    /\ analysis.at = "awaiting"
    /\ analysis'.at = "done"
    /\ Len(sectionResults') > 0

\* C28: after a successful analysis run the rating pre-filled for a
\* principle is the score of its combined AI score when it has one, and
\* null when it has none: the maximum of the pre-fill and the maximum of
\* combinedAiScores agree, whatever the section results hold for the
\* principle (no entry, a score of 0, an entry marked notApplicable).
C28_PrefillAgreesWithCombined ==
    [][ RunSucceeds =>
            LET combined == combinedAiScoresOf(sectionResults') IN
            /\ combined # None
            /\ \A id \in Range(principles) :
                   IF id \in DOMAIN The(combined)
                   THEN ratings'[id] = The(combined)[id].score
                   ELSE ratings'[id] = NULL
      ]_vars

\* after a run over two sections, one principle has a combined score that
\* is its rating although another section marks it notApplicable or gives
\* it 0, and another principle has entries but no combined score
C28_Witness ==
    /\ analysis.at = "done"
    /\ Len(sectionResults) = 2
    /\ \E id, other \in Range(principles) :
           /\ id \in DOMAIN The(combinedAiScoresOf(sectionResults))
           /\ ratings[id] = The(combinedAiScoresOf(sectionResults))[id].score
           /\ \E k \in DOMAIN sectionResults :
                  /\ id \in DOMAIN sectionResults[k].scores
                  /\ sectionResults[k].scores[id] \in
                         { Entry(0, FALSE), Entry(N(4), TRUE) }
           /\ other \notin DOMAIN The(combinedAiScoresOf(sectionResults))
           /\ ratings[other] = NULL
           /\ \E k \in DOMAIN sectionResults :
                  other \in DOMAIN sectionResults[k].scores


(***************************************************************************)
(* The whole tool with every HTTP request returning or failing: the        *)
(* continuation of a handler after its await is eventually run             *)
(***************************************************************************)

\* a slip: the catch block leaves isAnalyzing and analyzingSection as they
\* are
AnalyzeFetchFails_StaysBusy ==
    /\ analysis.at = "awaiting"
    /\ error' = <<"Failed to fetch">>
    /\ analysis' = Analysis("failed", <<>>, analysis.i, <<>>)
    /\ UNCHANGED <<mode, ratings, sections, sectionResults, showFollowUp,
                   isRefining, refinedScores, refinement, isAnalyzing,
                   analyzingSection>>
    /\ UNCHANGED currentIndex
    /\ UNCHANGED <<classifierVars, filterVars, endpointVars, advisorVars,
                   linkVars, storeVars, upfrontVars, followUpVars,
                   takeawayVars>>

\* analyzeSections after an await, the fetch rejected (the network failed):
\* the catch block, with the message of the TypeError of fetch
AnalyzeFetchFails ==
    /\ analysis.at = "awaiting"
    /\ error' = <<"Failed to fetch">>
    /\ isAnalyzing' = FALSE
    /\ analyzingSection' = None
    /\ analysis' = Analysis("failed", <<>>, analysis.i, <<>>)
    /\ UNCHANGED <<mode, ratings, sections, sectionResults, showFollowUp,
                   isRefining, refinedScores, refinement>>
    /\ UNCHANGED currentIndex
    /\ UNCHANGED <<classifierVars, filterVars, endpointVars, advisorVars,
                   linkVars, storeVars, upfrontVars, followUpVars,
                   takeawayVars>>

\* handleFollowUpComplete after its await, the fetch rejected: the catch
\* and the finally block
RefineFetchFails ==
    /\ refinement.at = "awaiting"
    /\ error' = <<"Failed to fetch">>
    /\ isRefining' = FALSE
    /\ showFollowUp' = FALSE
    /\ RefinementReturns
    /\ UNCHANGED <<mode, ratings, sections, sectionResults, isAnalyzing,
                   analyzingSection, refinedScores, analysis>>
    /\ currentIndex' = 0
    /\ UNCHANGED <<classifierVars, filterVars, endpointVars, advisorVars,
                   linkVars, storeVars, upfrontVars, followUpVars,
                   takeawayVars>>

\* the analyze request in flight returns or fails
AnalyzeReturns ==
    AnalyzeFetchFails \/ AnalyzeFails \/ AnalyzeNext \/ AnalyzeFinish

\* the refine request in flight returns or fails
RefineReturns == RefineFetchFails \/ RefineFails \/ RefineSucceeds

\* the section lists the user has prepared when the analysis is looked at:
\* one section, two sections, and a section without images before one
\* with an image
PreparedSections ==
    { <<Section(ReviewSummary, 1)>>,
      <<Section(ReviewSummary, 1), Section(PracticeActivity, 1)>>,
      <<Section(PracticeActivity, 0), Section(ReviewSummary, 1)>> }

\* the tool in AI mode with its sections prepared, before the first run
LiveInit ==
    /\ mode = "ai"
    /\ sections \in PreparedSections
    /\ ratings = NoRatings
    /\ sectionResults = <<>>
    /\ isAnalyzing = FALSE
    /\ analyzingSection = None
    /\ error = NoError
    /\ showFollowUp = FALSE
    /\ isRefining = FALSE
    /\ refinedScores = Array(<<>>)
    /\ currentIndex = 0
    /\ analysis = Analysis("idle", <<>>, 0, <<>>)
    /\ refinement = Refinement("idle", NoRatings, None, <<>>)
    /\ apiKey \in BOOLEAN
    /\ request = Request([isArray |-> FALSE, length |-> 0], None, Undefined,
                         FALSE)
    /\ oracleOutcome = None
    /\ handled = None
    /\ ClassifierIdle
    /\ FilterIdle
    /\ AdvisorIdle
    /\ LinkIdle
    /\ StoreIdle
    /\ UpfrontIdle
    /\ FollowUpIdle
    /\ TakeawayIdle

\* the steps of the tool once the sections are prepared: the runs, the
\* follow-up flow, the refinements and the resets
LiveNext ==
    \/ SetMode
    \/ StartOver
    \/ AnalyzeStart
    \/ AnalyzeFetchFails
    \/ AnalyzeFails
    \/ AnalyzeNext
    \/ AnalyzeFinish
    \/ FollowUpNext
    \/ FollowUpPrevious
    \/ FollowUpSkip
    \/ FollowUpComplete
    \/ RefineFetchFails
    \/ RefineFails
    \/ RefineSucceeds

SpecLive ==
    /\ LiveInit
    /\ [][LiveNext]_vars
    /\ WF_vars(AnalyzeReturns)
    /\ WF_vars(RefineReturns)

\* C30: provided every HTTP request eventually returns or fails, every
\* analysis run that is started eventually ends, with isAnalyzing false
\* and analyzingSection null, and every refinement that is started
\* eventually ends, with isRefining false and showFollowUp false.
C30_RunsAndRefinementsEnd ==
    /\ (analysis.at = "awaiting") ~>
           (analysis.at # "awaiting" /\ ~isAnalyzing
                /\ analyzingSection = None)
    /\ (refinement.at = "awaiting") ~>
           (refinement.at # "awaiting" /\ ~isRefining /\ ~showFollowUp)

\* a refinement ended by a failure, after an analysis run that ended by a
\* success
C30_Witness ==
    /\ analysis.at = "done"
    /\ refinement.at = "idle"
    /\ Len(sectionResults) > 0
    /\ error # NoError
    /\ ~isAnalyzing
    /\ ~isRefining
    /\ ~showFollowUp
    /\ analyzingSection = None

=============================================================================
